---- MODULE Spec2Model ----
(***************************************************************************)
(* A model of passata (src/passata.py): the name splitting helpers, the    *)
(* in-memory store DB.get/put/pop/sort, the persistence protocol           *)
(* DB.read/DB.write and the lock file shared by passata processes.         *)
(*                                                                         *)
(* Python strings that the code takes apart (names, group and entry keys)  *)
(* are sequences of one-character strings.  Python's None for such a       *)
(* string is the tuple None, which is no string of characters.             *)
(* A Python dict is a record [t |-> "dict", items |-> <<k1, v1>>, ...] that *)
(* keeps the insertion order, as dict does.                                *)
(***************************************************************************)
EXTENDS Integers, Sequences, FiniteSets, TLC

(***************************************************************************)
(* Bounds of the model.                                                    *)
(***************************************************************************)
\* longest name given to split and isgroup
MaxNameLen == 4
\* longest name given to get, put and pop
MaxStoreNameLen == 3
\* most entries a Database of the store model holds
MaxSize == 3
\* passata processes started on the same database path
NumProcs == 2
\* most names given to rm, most sources given to mv
MaxArgs == 2
\* most saves of the edited file that the watcher of edit handles
MaxSaves == 1
\* most queries given to find
MaxQueries == 2

(***************************************************************************)
(* Characters and strings.                                                 *)
(***************************************************************************)
Slash == "/"
Letters == {"a", "b"}
Chars == Letters \cup {Slash}

\* the characters used, in code point order
Alphabet == <<" ", "(", ")", "/", "A", "B", "_",
              "a", "b", "c", "d", "e", "f", "g", "h", "i", "j", "k", "l", "m",
              "n", "o", "p", "q", "r", "s", "t", "u", "v", "w", "x", "y", "z">>

\* Python's ord(c), up to the gaps between the characters used
Ord(c) == CHOOSE i \in 1..Len(Alphabet) : Alphabet[i] = c

None == <<"None">>

\* all strings over cs of length at most n
RECURSIVE StringsUpTo(_, _)
StringsUpTo(cs, n) ==
    IF n = 0 THEN {<<>>}
    ELSE LET shorter == StringsUpTo(cs, n - 1)
         IN  shorter \cup {Append(s, c) : s \in shorter, c \in cs}

\* Python's str < str: lexicographic by code point, a proper prefix is smaller
RECURSIVE StrLess(_, _)
StrLess(s, t) ==
    IF t = <<>> THEN FALSE
    ELSE IF s = <<>> THEN TRUE
    ELSE IF Ord(Head(s)) # Ord(Head(t)) THEN Ord(Head(s)) < Ord(Head(t))
    ELSE StrLess(Tail(s), Tail(t))

HasSlash(s) == \E i \in 1..Len(s) : s[i] = Slash

NumSlashes(s) == Cardinality({i \in 1..Len(s) : s[i] = Slash})

\* Python's s.split("/"): the list of the segments between the slashes
RECURSIVE StrSplit(_)
StrSplit(s) ==
    IF ~HasSlash(s) THEN <<s>>
    ELSE LET i == CHOOSE k \in 1..Len(s) :
                      s[k] = Slash /\ \A j \in 1..(k - 1) : s[j] # Slash
         IN  <<SubSeq(s, 1, i - 1)>> \o StrSplit(SubSeq(s, i + 1, Len(s)))

\* Python's s.rstrip("/")
RECURSIVE RStrip(_)
RStrip(s) ==
    IF s # <<>> /\ s[Len(s)] = Slash THEN RStrip(SubSeq(s, 1, Len(s) - 1)) ELSE s

\* Python's str.lower(), on the characters used
Lower(c) == IF c = "A" THEN "a" ELSE IF c = "B" THEN "b" ELSE c

LowerStr(s) == [i \in 1..Len(s) |-> Lower(s[i])]

\* Python's `q in s` for strings
IsSubstr(q, s) == \E i \in 0..(Len(s) - Len(q)) : SubSeq(s, i + 1, i + Len(q)) = q

\* Python's truth value of a string or None
Falsy(s) == s = None \/ s = <<>>

(***************************************************************************)
(* isgroup and split.                                                      *)
(***************************************************************************)
isgroup(name) == ~HasSlash(name) \/ StrSplit(name)[2] = <<>>

\* ok = FALSE is sys.exit("<name> is nested too deeply")
split(name) ==
    IF Falsy(name) THEN [ok |-> TRUE, groupname |-> None, entryname |-> None]
    ELSE IF isgroup(name)
    THEN [ok |-> TRUE, groupname |-> RStrip(name), entryname |-> None]
    ELSE LET parts == StrSplit(name)
         IN  IF Len(parts) = 2
             THEN [ok |-> TRUE, groupname |-> parts[1], entryname |-> parts[2]]
             ELSE [ok |-> FALSE, groupname |-> None, entryname |-> None]

(***************************************************************************)
(* Python values: None, dict (ordered), and an opaque scalar.              *)
(***************************************************************************)
NoneVal == [t |-> "none"]
Dict(items) == [t |-> "dict", items |-> items]
Scalar(s) == [t |-> "str", s |-> s]
List(items) == [t |-> "list", items |-> items]
EmptyDict == Dict(<<>>)

IsDict(v) == v.t = "dict"

\* Python's `not v` for None, a dict or a non-empty scalar
FalsyVal(v) == v = NoneVal \/ v = EmptyDict

Keys(d) == [i \in 1..Len(d.items) |-> d.items[i][1]]
KeySet(d) == {d.items[i][1] : i \in 1..Len(d.items)}
HasKey(d, k) == k \in KeySet(d)
IndexOf(d, k) == CHOOSE i \in 1..Len(d.items) : d.items[i][1] = k

\* d.get(k): None when k is no key of d
DictGet(d, k) == IF HasKey(d, k) THEN d.items[IndexOf(d, k)][2] ELSE NoneVal

\* d[k] = v: an existing key keeps its place, a new key goes last
DictSet(d, k, v) ==
    IF HasKey(d, k)
    THEN Dict([d.items EXCEPT ![IndexOf(d, k)] = <<k, v>>])
    ELSE Dict(Append(d.items, <<k, v>>))

\* del d[k]
DictDel(d, k) ==
    LET i == IndexOf(d, k)
    IN  Dict(SubSeq(d.items, 1, i - 1) \o SubSeq(d.items, i + 1, Len(d.items)))

\* the keys of d iterate in lexicographic order
SortedKeys(d) ==
    \A i, j \in 1..Len(d.items) : i < j => StrLess(d.items[i][1], d.items[j][1])

(***************************************************************************)
(* to_string and to_dict.  A text is the empty string or the YAML document *)
(* that safe_dump(sort_keys=False) writes for a value, key order included. *)
(***************************************************************************)
EmptyText == [t |-> "text", doc |-> NoneVal]
YamlText(v) == [t |-> "text", doc |-> v]

to_string(data) == IF FalsyVal(data) THEN EmptyText ELSE YamlText(data)

to_dict(data) == IF data = NoneVal \/ data = EmptyText THEN EmptyDict ELSE data.doc

\* DB.validate: the message of sys.exit, after the name it is about, and
\* the empty message when d is a valid Database
validate(d) ==
    IF ~IsDict(d) THEN "Database is not a dict"
    ELSE IF \E i \in 1..Len(d.items) : ~IsDict(d.items[i][2]) THEN "is not a dict"
    ELSE IF \E i \in 1..Len(d.items) : \E j \in 1..Len(d.items[i][2].items) :
                ~IsDict(d.items[i][2].items[j][2])
    THEN "is not a dict"
    ELSE ""

(***************************************************************************)
(* DB.sort_group, DB.sort, DB.get, DB.pop, DB.put on a Database d.         *)
(* pop and put return [db, ret, asked, status]: the Database afterwards,   *)
(* the value returned, the confirmation asked for ("none" when no prompt   *)
(* was shown) and "ok", or "exit0"/"exit1" when sys.exit ended the process.*)
(* answer is the user's reply to click.confirm, should it be asked.        *)
(***************************************************************************)
\* sorted(items, key=lambda t: t[0])
RECURSIVE SortItems(_)
SortItems(items) ==
    IF items = <<>> THEN <<>>
    ELSE LET least == CHOOSE i \in 1..Len(items) :
                          \A j \in 1..Len(items) :
                              j # i => StrLess(items[i][1], items[j][1])
         IN  <<items[least]>> \o
             SortItems(SubSeq(items, 1, least - 1) \o
                       SubSeq(items, least + 1, Len(items)))

\* a sort_group that leaves the group as it is
sort_group_skipped(d, groupname) == d

sort_group(d, groupname) ==
    DictSet(d, groupname, Dict(SortItems(DictGet(d, groupname).items)))

RECURSIVE SortFrom(_, _)
SortFrom(d, i) ==
    IF i > Len(d.items) THEN d ELSE SortFrom(sort_group(d, d.items[i][1]), i + 1)

sort(d) == SortFrom(d, 1)

\* a get that returns the group when asked for one of its entries
get_group_only(d, name) ==
    LET sp == split(name)
    IN  IF ~sp.ok THEN [ret |-> NoneVal, status |-> "exit1"]
        ELSE IF Falsy(sp.groupname) THEN [ret |-> d, status |-> "ok"]
        ELSE [ret |-> DictGet(d, sp.groupname), status |-> "ok"]

get(d, name) ==
    LET sp == split(name)
        groupname == sp.groupname
        entryname == sp.entryname
    IN  IF ~sp.ok THEN [ret |-> NoneVal, status |-> "exit1"]
        ELSE IF Falsy(groupname) THEN [ret |-> d, status |-> "ok"]
        ELSE IF Falsy(entryname) THEN [ret |-> DictGet(d, groupname), status |-> "ok"]
        ELSE IF ~HasKey(d, groupname) THEN [ret |-> NoneVal, status |-> "ok"]
        ELSE [ret |-> DictGet(DictGet(d, groupname), entryname), status |-> "ok"]

\* confirm(message, force) lets the caller go on
Confirmed(force, answer) == force \/ answer

Asked(force, prompt) == IF force THEN "none" ELSE prompt

\* a pop of an entry that leaves the group in place when it becomes empty
PopEntryKeepingGroup(d, groupname, entryname) ==
    DictSet(d, groupname, DictDel(DictGet(d, groupname), entryname))

PopEntry(d, groupname, entryname) ==
    LET group == DictDel(DictGet(d, groupname), entryname)
    IN  IF group = EmptyDict THEN DictDel(d, groupname)
        ELSE DictSet(d, groupname, group)

pop(d, name, force, answer) ==
    LET sp == split(name)
        groupname == sp.groupname
        entryname == sp.entryname
        declined(prompt) ==
            [db |-> d, ret |-> NoneVal, asked |-> prompt, status |-> "exit0"]
    IN  IF ~sp.ok
        THEN [db |-> d, ret |-> NoneVal, asked |-> "none", status |-> "exit1"]
        ELSE IF Falsy(groupname)
        THEN IF ~Confirmed(force, answer) THEN declined("database")
             ELSE [db |-> EmptyDict, ret |-> NoneVal,
                   asked |-> Asked(force, "database"), status |-> "ok"]
        ELSE IF ~HasKey(d, groupname)
        THEN [db |-> d, ret |-> NoneVal, asked |-> "none", status |-> "ok"]
        ELSE IF Falsy(entryname)
        THEN IF ~Confirmed(force, answer) THEN declined("group")
             ELSE [db |-> DictDel(d, groupname), ret |-> DictGet(d, groupname),
                   asked |-> Asked(force, "group"), status |-> "ok"]
        ELSE IF ~HasKey(DictGet(d, groupname), entryname)
        THEN [db |-> d, ret |-> NoneVal, asked |-> "none", status |-> "ok"]
        ELSE IF ~Confirmed(force, answer) THEN declined("entry")
        ELSE [db |-> PopEntry(d, groupname, entryname),
              ret |-> DictGet(DictGet(d, groupname), entryname),
              asked |-> Asked(force, "entry"), status |-> "ok"]

PutGroup(d, groupname, subdict) == sort_group(DictSet(d, groupname, subdict), groupname)

\* a put of an entry that also sorts the groups of the Database by name
PutEntrySortingGroups(d, groupname, entryname, subdict) ==
    LET d1 == IF ~HasKey(d, groupname) THEN DictSet(d, groupname, EmptyDict) ELSE d
        d2 == DictSet(d1, groupname, DictSet(DictGet(d1, groupname), entryname, subdict))
    IN  Dict(SortItems(sort_group(d2, groupname).items))

PutEntry(d, groupname, entryname, subdict) ==
    LET d1 == IF ~HasKey(d, groupname) THEN DictSet(d, groupname, EmptyDict) ELSE d
        d2 == DictSet(d1, groupname, DictSet(DictGet(d1, groupname), entryname, subdict))
    IN  sort_group(d2, groupname)

\* a put of {} that removes without the confirmation of pop
PutEmptyForced(d, name, answer) == [pop(d, name, TRUE, answer) EXCEPT !.ret = NoneVal]

PutEmpty(d, name, answer) == [pop(d, name, FALSE, answer) EXCEPT !.ret = NoneVal]

put(d, name, subdict, answer) ==
    IF FalsyVal(subdict) THEN PutEmpty(d, name, answer)
    ELSE LET sp == split(name)
             groupname == sp.groupname
             entryname == sp.entryname
             done(newdb) ==
                 [db |-> newdb, ret |-> NoneVal, asked |-> "none", status |-> "ok"]
         IN  IF ~sp.ok
             THEN [db |-> d, ret |-> NoneVal, asked |-> "none", status |-> "exit1"]
             ELSE IF Falsy(groupname) THEN done(sort(subdict))
             ELSE IF Falsy(entryname) THEN done(PutGroup(d, groupname, subdict))
             ELSE done(PutEntry(d, groupname, entryname, subdict))

(***************************************************************************)
(* The store on its own: one DB object, read from a validated file and     *)
(* then given get, put and pop calls with names and values of any shape.   *)
(***************************************************************************)
VARIABLES
    db,        \* self.db of the DB object
    status,    \* "ok" while the process runs, else how sys.exit ended it
    last,      \* the call being made: arguments, Database before, result
    dbfile,    \* the file at the database path: NoFile or a ciphertext
    lockpath,  \* the inode that <path>.lock names, NoInode when it is absent
    held,      \* per inode, the process holding the lockf lock on it
    procs,     \* per process: position, command, descriptor, registrations
    run        \* the passata command being run: position, arguments, DB fields

storevars == <<db, status, last>>
lockvars == <<dbfile, lockpath, held, procs>>
cmdvars == <<run>>
vars == <<db, status, last, dbfile, lockpath, held, procs, run>>

(***************************************************************************)
(* Files.  encrypt and decrypt (gpg) are inverse on whole ciphertexts.     *)
(***************************************************************************)
NoFile == [t |-> "nofile"]
encrypt(data) == [t |-> "cipher", of |-> data]
decrypt(file) == file.of

\* the file holds all the bytes of one ciphertext
Complete(file) == file.t = "cipher"

\* a file that holds some proper prefix of the bytes written to it
PartialFile(bytes) == [t |-> "partial", of |-> bytes]

\* a write that puts the bytes into the database file itself
write_in_place(files, bytes) == [files EXCEPT !.dbfile = PartialFile(bytes)]

\* temp.write(encrypted): the bytes go to the temporary file, where some
\* prefix of them may reach the file before the flush
temp_write(files, bytes) == [files EXCEPT !.temp = PartialFile(bytes)]

\* the passata processes: NumProcs of them, and one that is started later
Procs == 1..(NumProcs + 1)
Early == 1..NumProcs
NoProc == 0
NoInode == 0

\* no process of the lock model is started
LockIdle ==
    /\ lockpath = NoInode
    /\ held = [i \in Procs |-> NoProc]
    /\ procs = [p \in Procs |-> [pc |-> "idle"]]

\* no command is run
NoRun == [pc |-> "unused"]

\* the files and the command at rest, for the specifications without them
LockUnused ==
    /\ dbfile = NoFile
    /\ LockIdle
    /\ run = NoRun

password == <<"p", "a", "s", "s", "w", "o", "r", "d">>
username == <<"u", "s", "e", "r", "n", "a", "m", "e">>

Entry1 == Dict(<< <<password, Scalar("gh")>> >>)
Entry2 == Dict(<< <<password, Scalar("rdt")>>, <<username, Scalar("sakis")>> >>)

\* an entry that has no password
NoPassword == Dict(<< <<username, Scalar("sakis")>> >>)

GroupKeys == {<<"a">>, <<"b">>}
EntryKeys == {<<"a">>, <<"b">>, <<"c">>}

\* the item lists of at most n items with distinct keys
RECURSIVE OrderedItems(_, _, _)
OrderedItems(keys, vals, n) ==
    IF n = 0 THEN {<<>>}
    ELSE LET shorter == OrderedItems(keys, vals, n - 1)
         IN  shorter \cup
             {Append(x[1], <<x[2], x[3]>>) :
                 x \in {y \in shorter \X keys \X vals :
                           \A i \in 1..Len(y[1]) : y[1][i][1] # y[2]}}

OrderedDicts(keys, vals) ==
    {Dict(items) : items \in OrderedItems(keys, vals, Cardinality(keys))}

\* what to_dict yields for a file that passes validate(): groups and entries
\* in the order of the file, whatever that is
\* the number of entries of Database d
RECURSIVE SizeFrom(_, _)
SizeFrom(d, i) ==
    IF i > Len(d.items) THEN 0 ELSE Len(d.items[i][2].items) + SizeFrom(d, i + 1)

Size(d) == SizeFrom(d, 1)

LoadedGroups == OrderedDicts(EntryKeys, {Entry1}) \ {EmptyDict}
LoadedDatabases == {d \in OrderedDicts(GroupKeys, LoadedGroups) : Size(d) <= MaxSize}

\* the names that split rejects or splits to the keys used (or to none)
StoreNames ==
    {n \in StringsUpTo(Chars \cup {"c"}, MaxStoreNameLen) :
        /\ split(n).groupname \in GroupKeys \cup {None, <<>>}
        /\ split(n).entryname \in EntryKeys \cup {None}}

\* the replies to a prompt: no prompt is shown when force is set
Answers(force) == IF force THEN {TRUE} ELSE BOOLEAN

\* values given to put: an Entry for an entry name, a Group for a group
\* name, a Database for no name; {} for all of them
EntryValues == {Entry2}
GroupValues ==
    { Dict(<< <<(<<"b">>), Entry1>>, <<(<<"a">>), Entry2>> >>),
      Dict(<< <<(<<"c">>), Entry2>> >>) }
DatabaseValues ==
    { Dict(<< <<(<<"b">>), Dict(<< <<(<<"b">>), Entry1>>, <<(<<"a">>), Entry2>> >>)>>,
              <<(<<"a">>), Dict(<< <<(<<"a">>), Entry2>> >>)>> >>),
      Dict(<< <<(<<"a">>), EmptyDict>> >>) }

ValuesFor(name) ==
    LET sp == split(name)
    IN  {EmptyDict} \cup
        (IF ~sp.ok THEN EntryValues
         ELSE IF Falsy(sp.groupname) THEN DatabaseValues
         ELSE IF Falsy(sp.entryname) THEN GroupValues
         ELSE EntryValues)

NoCall == [op |-> "none"]

StoreInit ==
    /\ db \in LoadedDatabases
    /\ status = "ok"
    /\ last = NoCall
    /\ LockUnused

CanCall == status = "ok" /\ last = NoCall

StoreGet(name) ==
    /\ CanCall
    /\ last' = [op |-> "get", name |-> name, pre |-> db, ret |-> get(db, name).ret]
    /\ status' = get(db, name).status
    /\ UNCHANGED db
    /\ UNCHANGED lockvars
    /\ UNCHANGED cmdvars

StorePut(name, subdict, answer) ==
    LET r == put(db, name, subdict, answer)
    IN  /\ CanCall
        /\ Size(r.db) <= MaxSize
        /\ db' = r.db
        /\ status' = r.status
        /\ last' = [op |-> "put", name |-> name, value |-> subdict, pre |-> db,
                    ret |-> r.ret, asked |-> r.asked]
        /\ UNCHANGED lockvars
        /\ UNCHANGED cmdvars

StorePop(name, force, answer) ==
    LET r == pop(db, name, force, answer)
    IN  /\ CanCall
        /\ db' = r.db
        /\ status' = r.status
        /\ last' = [op |-> "pop", name |-> name, force |-> force, pre |-> db,
                    ret |-> r.ret, asked |-> r.asked]
        /\ UNCHANGED lockvars
        /\ UNCHANGED cmdvars

\* the call returns to the command that made it
StoreReturn ==
    /\ status = "ok"
    /\ last # NoCall
    /\ last' = NoCall
    /\ UNCHANGED <<db, status>>
    /\ UNCHANGED lockvars
    /\ UNCHANGED cmdvars

StoreNext ==
    \/ \E name \in StoreNames \cup {None} : StoreGet(name)
    \/ \E name \in StoreNames : \E subdict \in ValuesFor(name) :
          \E answer \in Answers(~FalsyVal(subdict)) : StorePut(name, subdict, answer)
    \/ \E name \in StoreNames : \E force \in BOOLEAN :
          \E answer \in Answers(force) : StorePop(name, force, answer)
    \/ StoreReturn

SpecStore == StoreInit /\ [][StoreNext]_vars

(***************************************************************************)
(* split and isgroup on their own: a name is drawn and the functions are   *)
(* applied to it.                                                          *)
(***************************************************************************)
AllNames == StringsUpTo(Chars, MaxNameLen)

SplitInit ==
    /\ db = EmptyDict
    /\ status = "ok"
    /\ last \in {[op |-> "name", name |-> n] : n \in AllNames}
    /\ LockUnused

SplitCall ==
    /\ last.op = "name"
    /\ last' = [op |-> "split", name |-> last.name, ret |-> split(last.name)]
    /\ status' = IF split(last.name).ok THEN "ok" ELSE "exit1"
    /\ UNCHANGED db
    /\ UNCHANGED lockvars
    /\ UNCHANGED cmdvars

IsGroupCall ==
    /\ last.op = "name"
    /\ last' = [op |-> "isgroup", name |-> last.name, ret |-> isgroup(last.name)]
    /\ UNCHANGED <<db, status>>
    /\ UNCHANGED lockvars
    /\ UNCHANGED cmdvars

SplitNext == SplitCall \/ IsGroupCall

SpecSplit == SplitInit /\ [][SplitNext]_vars

(***************************************************************************)
(* Properties of the store (checked under SpecStore).                      *)
(***************************************************************************)
Mutated == last.op \in {"put", "pop"} /\ status = "ok"

LastSplit == split(last.name)

\* the call removes: a pop, or a put of an empty value
Removal == last.op = "pop" \/ (last.op = "put" /\ FalsyVal(last.value))

\* the keys that d and e share iterate in the same order in both
SameRelativeOrder(d, e) ==
    \A k1, k2 \in KeySet(d) \cap KeySet(e) :
        IndexOf(d, k1) < IndexOf(d, k2) <=> IndexOf(e, k1) < IndexOf(e, k2)

\* the keys of e that d lacks come after every key that d has
NewKeysLast(d, e) ==
    \A k1 \in KeySet(e) \cap KeySet(d) : \A k2 \in KeySet(e) \ KeySet(d) :
        IndexOf(e, k1) < IndexOf(e, k2)

AllGroupsSorted(d) == \A i \in 1..Len(d.items) : SortedKeys(d.items[i][2])

\* C5: starting from a Database with no empty Group, after any sequence of
\* put and pop calls the Database holds no Group with zero Entries.
C5_NoEmptyGroup == \A i \in 1..Len(db.items) : db.items[i][2] # EmptyDict

\* C7 as stated: after any put or pop on a Group or an Entry of a Group that
\* changed the Database, the entry names of that Group iterate in
\* lexicographic order; after a put of the whole Database, those of every Group.
C7_SortedAfterPutOrPop ==
    (Mutated /\ LastSplit.ok /\ db # last.pre) =>
        IF Falsy(LastSplit.groupname) THEN AllGroupsSorted(db)
        ELSE HasKey(db, LastSplit.groupname) =>
                 SortedKeys(DictGet(db, LastSplit.groupname))

\* C7 amended: a put of a non-empty value leaves the Group it names (every
\* Group when it names the whole Database) with its entry names in
\* lexicographic order, whatever order the read Database had; a removal of an
\* Entry does not sort: the remaining entries keep their relative order, so
\* the Group is sorted afterwards if it was sorted before.
C7_SortedAfterPut ==
    /\ (Mutated /\ last.op = "put" /\ ~FalsyVal(last.value) /\ LastSplit.ok) =>
           IF Falsy(LastSplit.groupname) THEN AllGroupsSorted(db)
           ELSE SortedKeys(DictGet(db, LastSplit.groupname))
    /\ (Mutated /\ Removal /\ LastSplit.ok /\ ~Falsy(LastSplit.groupname)
            /\ HasKey(db, LastSplit.groupname)) =>
           LET before == DictGet(last.pre, LastSplit.groupname)
               after == DictGet(db, LastSplit.groupname)
           IN  /\ KeySet(after) = KeySet(before) \ {LastSplit.entryname}
               /\ SameRelativeOrder(before, after)
               /\ SortedKeys(before) => SortedKeys(after)

\* a put of an entry into a group that was read unsorted, which then holds
\* three entries
C7_Witness ==
    /\ Mutated /\ last.op = "put" /\ ~FalsyVal(last.value)
    /\ LastSplit.ok /\ ~Falsy(LastSplit.entryname)
    /\ HasKey(last.pre, LastSplit.groupname)
    /\ ~SortedKeys(DictGet(last.pre, LastSplit.groupname))
    /\ Len(DictGet(db, LastSplit.groupname).items) = 3

\* C8 as stated: after every mutation of the Database the group names
\* iterate in lexicographic order.
C8_GroupsSorted == (Mutated /\ db # last.pre) => SortedKeys(db)

\* C8 amended: put and pop never sort the groups.  After a put or pop of a
\* Group or an Entry the groups that remain keep their relative order and a
\* group the put created is last; a put of a whole Database takes the group
\* order of the value given; a pop of the whole Database leaves no group.
C8_GroupOrderKept ==
    (Mutated /\ LastSplit.ok) =>
        IF ~Falsy(LastSplit.groupname)
        THEN SameRelativeOrder(last.pre, db) /\ NewKeysLast(last.pre, db)
        ELSE IF Removal THEN db = EmptyDict
        ELSE Keys(db) = Keys(last.value)

\* a put that created group "a" after the existing group "b"
C8_Witness ==
    /\ Mutated /\ last.op = "put"
    /\ Keys(last.pre) = << <<"b">> >>
    /\ Keys(db) = << <<"b">>, <<"a">> >>

\* C9 as stated: put(name, {}) has the result of pop(name, force=true) and
\* asks for no confirmation.
C9_PutEmptyIsForcedPop ==
    (last.op = "put" /\ FalsyVal(last.value)) =>
        /\ last.asked = "none"
        /\ db = pop(last.pre, last.name, TRUE, TRUE).db
        /\ status = pop(last.pre, last.name, TRUE, TRUE).status

\* C9 amended: put(name, {}) is pop(name) without force: it asks for the
\* confirmation pop asks for when the name is the whole Database or is
\* present (none when the name is absent); once confirmed the Database is the
\* one pop(name, force=true) yields, once declined the process exits with
\* the Database unchanged; a second put(name, {}) changes nothing.
C9_PutEmptyIsPop ==
    (last.op = "put" /\ FalsyVal(last.value)) =>
        /\ last.asked = pop(last.pre, last.name, FALSE, TRUE).asked
        /\ status = "ok" => db = pop(last.pre, last.name, TRUE, TRUE).db
        /\ (status # "ok" /\ LastSplit.ok) =>
               (status = "exit0" /\ last.asked # "none" /\ db = last.pre)
        /\ ~LastSplit.ok => (status = "exit1" /\ db = last.pre)
        /\ status = "ok" =>
               \A answer \in BOOLEAN : put(db, last.name, EmptyDict, answer).db = db

\* a put of {} on an existing entry, confirmed by the user
C9_Witness ==
    /\ last.op = "put" /\ FalsyVal(last.value)
    /\ last.asked = "entry" /\ status = "ok" /\ db # last.pre

\* C16: get(name) returns the whole Database when no name is given, the
\* Group when the name is `group` or `group/`, the Entry when it is
\* `group/entry`, and None when the group or the entry does not exist; get
\* never changes the Database.
C16_Get ==
    last.op = "get" =>
        LET name == last.name
            parts == StrSplit(name)
            group == DictGet(last.pre, parts[1])
        IN  /\ db = last.pre
            /\ name = None => (last.ret = db /\ status = "ok")
            /\ (name # None /\ name # <<>> /\ NumSlashes(name) = 0) =>
                   (last.ret = DictGet(db, name) /\ status = "ok")
            /\ (name # None /\ NumSlashes(name) = 1 /\ parts[1] # <<>>
                    /\ parts[2] = <<>>) =>
                   (last.ret = group /\ status = "ok")
            /\ (name # None /\ NumSlashes(name) = 1 /\ parts[1] # <<>>
                    /\ parts[2] # <<>>) =>
                   /\ status = "ok"
                   /\ last.ret = IF HasKey(db, parts[1]) /\ HasKey(group, parts[2])
                                 THEN DictGet(group, parts[2]) ELSE NoneVal

\* get of `group/entry` found the entry in a group of several entries
C16_Witness ==
    /\ last.op = "get"
    /\ last.name # None
    /\ ~Falsy(split(last.name).entryname)
    /\ HasKey(db, split(last.name).groupname)
    /\ Len(DictGet(db, split(last.name).groupname).items) > 1
    /\ last.ret = Entry1

(***************************************************************************)
(* Properties of split (checked under SpecSplit).                          *)
(***************************************************************************)
SplitResult(groupname, entryname) ==
    [ok |-> TRUE, groupname |-> groupname, entryname |-> entryname]

\* C10: split(name) is (None, None) for an empty name, (name, None) for a
\* name with no '/', (group, None) for `group/`, (group, entry) for
\* `group/entry` with exactly one '/', and fails with "nested too deeply",
\* ending the command, for every name with more than one '/'; the Database
\* is untouched.
C10_Split ==
    last.op = "split" =>
        LET name == last.name
            parts == StrSplit(name)
        IN  /\ name = <<>> => last.ret = SplitResult(None, None)
            /\ (name # <<>> /\ NumSlashes(name) = 0) =>
                   last.ret = SplitResult(name, None)
            /\ (NumSlashes(name) = 1 /\ parts[1] # <<>> /\ parts[2] = <<>>) =>
                   last.ret = SplitResult(parts[1], None)
            /\ (NumSlashes(name) = 1 /\ parts[1] # <<>> /\ parts[2] # <<>>) =>
                   last.ret = SplitResult(parts[1], parts[2])
            /\ NumSlashes(name) > 1 => (~last.ret.ok /\ status = "exit1")
            /\ db = EmptyDict

\* the text of s after its first '/'
AfterFirstSlash(s) ==
    LET i == CHOOSE k \in 1..Len(s) : s[k] = Slash /\ \A j \in 1..(k - 1) : s[j] # Slash
    IN  SubSeq(s, i + 1, Len(s))

\* C11: for every non-empty name, isgroup(name) is true if and only if the
\* name contains no '/' or the text after its first '/' is empty.
C11_IsGroup ==
    (last.op = "isgroup" /\ last.name # <<>>) =>
        (last.ret <=> (~HasSlash(last.name) \/ AfterFirstSlash(last.name) = <<>>))

(***************************************************************************)
(* DB.find and DB.keywords on their own: a Database whose entries may have *)
(* a keywords field is searched for a list of queries.                     *)
(***************************************************************************)
keywords_field == <<"k", "e", "y", "w", "o", "r", "d", "s">>

\* DB.keywords: the keywords field of the entry as a list of lowercased
\* strings, whether it is a list, a single value or missing
keywords(d, name) ==
    LET kws == DictGet(get(d, name).ret, keywords_field)
    IN  IF kws.t = "list" THEN [i \in 1..Len(kws.items) |-> LowerStr(kws.items[i])]
        ELSE IF kws # NoneVal THEN <<LowerStr(kws.s)>>
        ELSE <<>>

\* DB.__iter__: the (groupname, entryname) pairs in the order of the dicts
RECURSIVE PairsFrom(_, _)
PairsFrom(d, i) ==
    IF i > Len(d.items) THEN <<>>
    ELSE [j \in 1..Len(d.items[i][2].items) |->
             <<d.items[i][1], d.items[i][2].items[j][1]>>] \o PairsFrom(d, i + 1)

Pairs(d) == PairsFrom(d, 1)

\* some query is a substring of s
AnyIn(names, s) == \E i \in 1..Len(names) : IsSubstr(names[i], s)

\* the first keyword that contains some query, 0 when there is none
FirstHit(names, kws) ==
    LET hits == {k \in 1..Len(kws) : AnyIn(names, kws[k])}
    IN  IF hits = {} THEN 0 ELSE CHOOSE k \in hits : \A j \in hits : k <= j

\* f"{name} ({keyword})"
KeywordKey(name, keyword) == name \o <<" ", "(">> \o keyword \o <<")">>

\* the loop of DB.find from pair i on; matches is the store built so far
\* and the status that its put calls left
RECURSIVE FindFrom(_, _, _, _)
FindFrom(d, names, i, matches) ==
    IF i > Len(Pairs(d)) \/ matches.status # "ok" THEN matches
    ELSE LET groupname == Pairs(d)[i][1]
             entryname == Pairs(d)[i][2]
             name == groupname \o <<Slash>> \o entryname
             kws == keywords(d, name)
             hit == FirstHit(names, kws)
             r == IF AnyIn(names, LowerStr(entryname))
                  THEN put(matches.db, name, get(d, name).ret, TRUE)
                  ELSE IF hit # 0
                  THEN put(matches.db, KeywordKey(name, kws[hit]), get(d, name).ret, TRUE)
                  ELSE [db |-> matches.db, status |-> "ok"]
         IN  FindFrom(d, names, i + 1, [db |-> r.db, status |-> r.status])

\* DB.find: status is "exit1" when a put of the loop ended in sys.exit
find(d, names) ==
    FindFrom(d, [i \in 1..Len(names) |-> LowerStr(names[i])], 1,
             [db |-> EmptyDict, status |-> "ok"])

\* entries with keywords: a list, a single string, none, and an empty entry
Keyed1 ==
    Dict(<< <<password, Scalar("gh")>>,
            <<keywords_field, List(<< <<"x", "B">>, <<"b", "/", "c">> >>)>> >>)
Keyed2 ==
    Dict(<< <<password, Scalar("rdt")>>, <<keywords_field, Scalar(<<"A", "b">>)>> >>)

FindEntryKeys == { <<"A", "b">>, <<"c">> }
FindEntries == {Entry1, Keyed1, Keyed2, EmptyDict}
FindGroups == OrderedDicts(FindEntryKeys, FindEntries) \ {EmptyDict}
FindDatabases ==
    {Dict(<< <<(<<"g">>), group>> >>) : group \in FindGroups}
    \cup
    {Dict(<< <<(<<"g">>), Dict(<< <<(<<"c">>), e1>> >>)>>,
             <<(<<"a">>), Dict(<< <<(<<"A", "b">>), e2>> >>)>> >>) :
        e1 \in FindEntries, e2 \in FindEntries}

Queries == { <<"a">>, <<"B">>, <<"g">>, <<"b", "/">> }

RECURSIVE QueryLists(_)
QueryLists(n) ==
    IF n = 1 THEN {<<q>> : q \in Queries}
    ELSE QueryLists(n - 1) \cup
         {Append(qs, q) : qs \in QueryLists(n - 1), q \in Queries}

FindInit ==
    /\ db \in FindDatabases
    /\ status = "ok"
    /\ last \in {[op |-> "queries", names |-> qs] : qs \in QueryLists(MaxQueries)}
    /\ LockUnused

FindCall ==
    LET r == find(db, last.names)
    IN  /\ last.op = "queries"
        /\ last' = [op |-> "find", names |-> last.names, pre |-> db, ret |-> r.db]
        /\ status' = r.status
        /\ UNCHANGED db
        /\ UNCHANGED lockvars
        /\ UNCHANGED cmdvars

FindNext == FindCall

SpecFind == FindInit /\ [][FindNext]_vars

\* the key that the claim gives the entry at pair p of d: the entry name,
\* the entry name with the first matching keyword, or None
ClaimedKey(d, names, p) ==
    LET lowered == [i \in 1..Len(names) |-> LowerStr(names[i])]
        kws == keywords(d, p[1] \o <<Slash>> \o p[2])
        hit == FirstHit(lowered, kws)
    IN  IF AnyIn(lowered, LowerStr(p[2])) THEN p[2]
        ELSE IF hit # 0 THEN KeywordKey(p[2], kws[hit])
        ELSE None

\* C17: find(queries) returns a store that holds, for every entry of the
\* Database, `group/entry` if some lowercased query is a substring of the
\* lowercased entry name, otherwise `group/entry (keyword)` for the first
\* keyword of the entry that contains some query, otherwise nothing, and
\* holds nothing else; the value is the entry; the Database searched is not
\* changed.
C17_Find ==
    last.op = "find" =>
        LET claimed == {<<Pairs(db)[i][1], ClaimedKey(db, last.names, Pairs(db)[i])>> :
                           i \in 1..Len(Pairs(db))}
            found == {Pairs(last.ret)[i] : i \in 1..Len(Pairs(last.ret))}
        IN  /\ status = "ok"
            /\ db = last.pre
            /\ found = {p \in claimed : p[2] # None}
            /\ \A i \in 1..Len(Pairs(db)) :
                   LET p == Pairs(db)[i]
                       key == ClaimedKey(db, last.names, p)
                   IN  key # None =>
                           get(last.ret, p[1] \o <<Slash>> \o key).ret =
                               get(db, p[1] \o <<Slash>> \o p[2]).ret

(***************************************************************************)
(* autotype: the entry for the active window is chosen, directly or by the *)
(* menu, and its keys are typed one by one while the window stays the      *)
(* same.  run is the record of the command; the window manager changes the *)
(* active window at any moment.  An autotype sequence is held as the list  *)
(* of its whitespace-separated tokens.                                     *)
(***************************************************************************)
Whitespace == {" ", "\n"}

\* Python's s.strip()
RECURSIVE Strip(_)
Strip(s) ==
    IF s # <<>> /\ Head(s) \in Whitespace THEN Strip(Tail(s))
    ELSE IF s # <<>> /\ s[Len(s)] \in Whitespace THEN Strip(SubSeq(s, 1, Len(s) - 1))
    ELSE s

\* Python's sorted() on a list of distinct strings
SortedNames(names) ==
    LET sorted == SortItems([i \in 1..Len(names) |-> <<names[i]>>])
    IN  [i \in 1..Len(names) |-> sorted[i][1]]

\* f"{groupname}/{entryname}" of a pair of DB.__iter__
Name(p) == p[1] \o <<Slash>> \o p[2]

\* the test of the loop of autotype on one pair
TitleMatches(d, p, window) ==
    LET kws == <<LowerStr(p[2])>> \o keywords(d, Name(p))
    IN  \E k \in 1..Len(kws) : IsSubstr(kws[k], LowerStr(window[2]))

FieldKey(name) == [t |-> "field", name |-> name]
PressKey(key) == [t |-> "key", key |-> key]
DelayKey == [t |-> "delay"]

autotype_field == <<"a", "u", "t", "o", "t", "y", "p", "e">>

\* data.split(): the words of s between runs of whitespace; word is the
\* word begun before position i
RECURSIVE SplitFrom(_, _, _)
SplitFrom(s, i, word) ==
    IF i > Len(s) THEN (IF word = <<>> THEN <<>> ELSE <<word>>)
    ELSE IF s[i] \in Whitespace
    THEN (IF word = <<>> THEN <<>> ELSE <<word>>) \o SplitFrom(s, i + 1, <<>>)
    ELSE SplitFrom(s, i + 1, Append(word, s[i]))

SplitWords(s) == SplitFrom(s, 1, <<>>)

\* "<username> Tab <password> Return"
UsernameTabPasswordReturn ==
    <<"<", "u", "s", "e", "r", "n", "a", "m", "e", ">", " ", "T", "a", "b",
      " ", "<", "p", "a", "s", "s", "w", "o", "r", "d", ">", " ", "R", "e",
      "t", "u", "r", "n">>

\* "<password> Return"
PasswordReturn ==
    <<"<", "p", "a", "s", "s", "w", "o", "r", "d", ">", " ", "R", "e", "t",
      "u", "r", "n">>

DontKnow == "Don't know what to type :("

\* a get_autotype_keys that never types the username
PasswordOnly(entry) == [keys |-> SplitWords(PasswordReturn), message |-> ""]

\* get_autotype_keys: message is the message of die, empty when it returns
get_autotype_keys(entry) ==
    IF DictGet(entry, autotype_field) # NoneVal
    THEN [keys |-> SplitWords(DictGet(entry, autotype_field).s), message |-> ""]
    ELSE IF ~FalsyVal(DictGet(entry, username)) /\ ~FalsyVal(DictGet(entry, password))
    THEN [keys |-> SplitWords(UsernameTabPasswordReturn), message |-> ""]
    ELSE IF ~FalsyVal(DictGet(entry, password))
    THEN [keys |-> SplitWords(PasswordReturn), message |-> ""]
    ELSE [keys |-> <<>>, message |-> DontKnow]

\* keyboard: what is done for key: the value of a field is typed for
\* "<field>", "!seconds" is a pause and any other key is pressed
KeyOf(key) ==
    IF key[1] = "<" /\ key[Len(key)] = ">"
    THEN FieldKey(SubSeq(key, 2, Len(key) - 1))
    ELSE IF key[1] = "!" THEN DelayKey
    ELSE PressKey(key)

\* the comparison made before every key; SameIdUnchanged ignores the title
SameIdUnchanged(active, window) == active[1] # window[1]
WindowChanged(active, window) == active # window

\* die(message) ends the command
Die(r, message) == [r EXCEPT !.pc = "done", !.message = message]

\* an entry with an autotype field (the text "<username>\nReturn "), and
\* one whose autotype field has no value
Scripted ==
    Dict(<< <<password, Scalar("gh")>>, <<username, Scalar("sakis")>>,
            <<autotype_field,
              Scalar(<<"<", "u", "s", "e", "r", "n", "a", "m", "e", ">", "\n", "R", "e", "t", "u", "r", "n", " ">>)>> >>)
Unscripted ==
    Dict(<< <<password, Scalar("gh")>>, <<autotype_field, NoneVal>> >>)

TypeEntries == {Entry2, Keyed1, EmptyDict, NoPassword, Scripted, Unscripted}

TypeDatabases ==
    LET first(gn, e) == <<gn, Dict(<< <<(<<"c">>), e>> >>)>>
        second(e) == <<(<<"g">>), Dict(<< <<(<<"A", "b">>), e>> >>)>>
    IN  UNION {{Dict(<<first(gn, e1), second(e2)>>), Dict(<<second(e2), first(gn, e1)>>)} :
                  gn \in {<<" ", "g">>, <<"a">>}, e1 \in TypeEntries, e2 \in TypeEntries}

Titles == { <<"A", "B">>, <<"x", "B", "c">>, <<"z">>, <<"c">> }

\* the windows that can become active instead of w: another window with
\* the same title, or the same window with another title
OtherWindows(w) == {<<2, w[2]>>, <<1, <<"z">>>>, <<1, <<"c">>>>} \ {w}

\* the --sequence option: not given, the empty text, and the text
\* "<password> !5  <username>"
Sequences ==
    { None, <<>>,
      <<"<", "p", "a", "s", "s", "w", "o", "r", "d", ">", " ", "!", "5", " ", " ",
      "<", "u", "s", "e", "r", "n", "a", "m", "e", ">">> }

\* what the menu prints for the lines it was given: one of them, a text of
\* the user's own, or nothing when it was dismissed (it exits with 1)
Dismissed == <<"dismissed">>
MenuAnswers(offered) ==
    {Append(offered[i], "\n") : i \in 1..Len(offered)} \cup {<<"z", "\n">>, Dismissed}

TypeInit ==
    /\ db \in TypeDatabases
    /\ status = "ok"
    /\ last = NoCall
    /\ dbfile = NoFile
    /\ LockIdle
    /\ \E title \in Titles, sequence \in Sequences :
           run = [pc |-> "scan", sequence |-> sequence, window |-> <<1, title>>,
                  active |-> <<1, title>>, names |-> <<>>, matches |-> <<>>,
                  menu |-> <<>>, answer |-> None, choice |-> None, entry |-> NoneVal,
                  keys |-> <<>>, i |-> 1, seen |-> <<>>, typed |-> <<>>,
                  message |-> ""]

typeidle == <<db, last, dbfile, lockpath, held, procs>>

\* the loop over the Database that fills names and matches
TypeScan ==
    LET Test(p) == TitleMatches(db, p, run.window)
        hits == SelectSeq(Pairs(db), Test)
    IN  /\ run.pc = "scan"
        /\ run' = [run EXCEPT !.pc = "select",
                              !.names = [i \in 1..Len(Pairs(db)) |-> Name(Pairs(db)[i])],
                              !.matches = [i \in 1..Len(hits) |-> Name(hits[i])]]
        /\ UNCHANGED status
        /\ UNCHANGED typeidle

\* len(matches) == 1
TypeSelect ==
    /\ run.pc = "select"
    /\ Len(run.matches) = 1
    /\ run' = [run EXCEPT !.pc = "get", !.choice = Strip(run.matches[1])]
    /\ UNCHANGED status
    /\ UNCHANGED typeidle

\* the menu is run on the sorted matches, or on the sorted names when
\* there are no matches
TypeChoose(answer) ==
    LET offered == SortedNames(IF run.matches # <<>> THEN run.matches ELSE run.names)
        asked == [run EXCEPT !.menu = Append(run.menu, offered), !.answer = answer]
    IN  /\ run.pc = "select"
        /\ Len(run.matches) # 1
        /\ answer \in MenuAnswers(offered)
        /\ IF answer = Dismissed
           THEN /\ run' = [asked EXCEPT !.pc = "done"]
                /\ status' = "exit1"
           ELSE /\ run' = [asked EXCEPT !.pc = "get", !.choice = Strip(answer)]
                /\ UNCHANGED status
        /\ UNCHANGED typeidle

\* db.get(choice), the assertion and the keys to type
TypeGet ==
    LET r == get(db, run.choice)
        k == IF ~Falsy(run.sequence)
             THEN [keys |-> SplitWords(run.sequence), message |-> ""]
             ELSE get_autotype_keys(r.ret)
        got == [run EXCEPT !.entry = r.ret]
    IN  /\ run.pc = "get"
        /\ IF r.status # "ok"
           THEN /\ run' = [run EXCEPT !.pc = "done"]
                /\ status' = r.status
           ELSE IF r.ret = NoneVal
           THEN /\ run' = [got EXCEPT !.pc = "done"]
                /\ status' = "AssertionError"
           ELSE IF k.message # ""
           THEN /\ run' = Die(got, k.message)
                /\ status' = "exit1"
           ELSE /\ run' = [got EXCEPT !.keys = k.keys,
                                      !.pc = IF k.keys = <<>> THEN "done" ELSE "check"]
                /\ UNCHANGED status
        /\ UNCHANGED typeidle

\* active_window() != window, before the key at run.i
TypeCheck ==
    LET looked == [run EXCEPT !.seen = Append(run.seen, run.active)]
    IN  /\ run.pc = "check"
        /\ IF WindowChanged(run.active, run.window)
           THEN /\ run' = Die(looked, "Window has changed")
                /\ status' = "exit1"
           ELSE /\ run' = [looked EXCEPT !.pc = "key"]
                /\ UNCHANGED status
        /\ UNCHANGED typeidle

\* a keyboard that types whatever entry.get gives
AnyValue(entry, key) == FALSE

\* keyboard: `value = entry.get(key[1:-1])`, `if not value`
NoValue(entry, key) == key.t = "field" /\ FalsyVal(DictGet(entry, key.name))

\* keyboard(key, entry, delay) for the key at run.i
TypeKey ==
    LET key == KeyOf(run.keys[run.i])
    IN  /\ run.pc = "key"
        /\ IF NoValue(run.entry, key)
           THEN /\ run' = Die(run, "not found")
                /\ status' = "exit1"
           ELSE /\ run' = [run EXCEPT !.typed = Append(run.typed, key),
                                      !.i = run.i + 1,
                                      !.pc = IF run.i = Len(run.keys)
                                             THEN "done" ELSE "check"]
                /\ UNCHANGED status
        /\ UNCHANGED typeidle

\* the window manager activates another window or the title changes
WindowChange ==
    /\ run.pc # "done"
    /\ \E w \in OtherWindows(run.active) : run' = [run EXCEPT !.active = w]
    /\ UNCHANGED status
    /\ UNCHANGED typeidle

TypeNext ==
    \/ TypeScan
    \/ TypeSelect
    \/ \E answer \in MenuAnswers(SortedNames(IF run.matches # <<>>
                                             THEN run.matches ELSE run.names)) :
           TypeChoose(answer)
    \/ TypeGet
    \/ TypeCheck
    \/ TypeKey
    \/ WindowChange

SpecType == TypeInit /\ [][TypeNext]_vars

\* the names of the entries whose lowercased name or one of whose keywords
\* is a substring of the lowercased title
Candidates(d, title) ==
    {Name(Pairs(d)[i]) :
        i \in {j \in 1..Len(Pairs(d)) :
                  \/ IsSubstr(LowerStr(Pairs(d)[j][2]), LowerStr(title))
                  \/ \E k \in 1..Len(keywords(d, Name(Pairs(d)[j]))) :
                         IsSubstr(keywords(d, Name(Pairs(d)[j]))[k], LowerStr(title))}}

\* m lists exactly the names of S, in increasing order
SortedListOf(m, S) ==
    /\ {m[i] : i \in 1..Len(m)} = S
    /\ \A i, j \in 1..Len(m) : i < j => StrLess(m[i], m[j])

\* the value of the entry called name
EntryOf(d, name) == DictGet(DictGet(d, StrSplit(name)[1]), StrSplit(name)[2])

\* C18: once autotype has chosen, with exactly one candidate the menu was
\* never run and the entry typed is that candidate; with several candidates
\* the menu was run once, on exactly the sorted candidates; with none it
\* was run once, on the sorted names of all entries; and the entry typed is
\* then the one whose name the menu returned, trimmed.
C18_Selection ==
    LET cands == Candidates(db, run.window[2])
        all == {Name(Pairs(db)[i]) : i \in 1..Len(Pairs(db))}
        chosen == run.pc \in {"check", "key"} \/ (run.pc = "done" /\ run.answer # Dismissed)
    IN  /\ run.pc \notin {"scan", "select"} =>
            /\ Len(run.menu) = (IF Cardinality(cands) = 1 THEN 0 ELSE 1)
            /\ Cardinality(cands) > 1 => SortedListOf(run.menu[1], cands)
            /\ Cardinality(cands) = 0 => SortedListOf(run.menu[1], all)
        /\ chosen =>
            /\ Cardinality(cands) = 1 =>
                   \E name \in cands : run.entry = EntryOf(db, name)
            /\ Cardinality(cands) # 1 =>
                   run.entry = get(db, Strip(run.answer)).ret

\* a key was passed to keyboard although some comparison before it had seen
\* another window, or without a comparison of its own
TypedAfterChange ==
    \/ Len(run.typed) > Len(run.seen)
    \/ \E j \in 1..Len(run.typed) : run.seen[j] # run.window

\* C19: every key passed to keyboard was preceded by a comparison of its
\* own that saw the window recorded at the start; a comparison that sees
\* another window is the last one, no further key is passed to keyboard
\* and the command ends with status 1 and the message 'Window has changed'.
C19_WindowChangeAborts ==
    /\ ~TypedAfterChange
    /\ \A j \in 1..Len(run.seen) :
           run.seen[j] # run.window =>
               /\ j = Len(run.seen)
               /\ Len(run.typed) = j - 1
               /\ run.pc = "done"
               /\ status = "exit1"
               /\ run.message = "Window has changed"

\* the window changed after the first key was typed and the command ended
C19_Witness ==
    /\ run.pc = "done"
    /\ run.message = "Window has changed"
    /\ Len(run.typed) >= 1
    /\ Len(run.typed) < Len(run.keys)
    /\ run.seen[Len(run.seen)] # run.window

\* the places of s where a word begins and where one ends: a character that
\* is no whitespace, with whitespace or nothing before it or after it
WordStarts(s) ==
    {i \in 1..Len(s) : s[i] \notin Whitespace /\ (i = 1 \/ s[i - 1] \in Whitespace)}

WordEnds(s) ==
    {i \in 1..Len(s) :
        s[i] \notin Whitespace /\ (i = Len(s) \/ s[i + 1] \in Whitespace)}

\* ts are the whitespace-separated tokens of s, in their order
TokensOf(ts, s) ==
    /\ Len(ts) = Cardinality(WordStarts(s))
    /\ \A a \in WordStarts(s) :
           LET k == Cardinality({b \in WordStarts(s) : b <= a})
               e == CHOOSE b \in WordEnds(s) :
                        b >= a /\ \A c \in WordEnds(s) : c >= a => b <= c
           IN  ts[k] = SubSeq(s, a, e)

\* the entry has a value for the field that is not empty
Filled(entry, field) ==
    HasKey(entry, field) /\ DictGet(entry, field) \notin {NoneVal, EmptyDict}

\* the command has an entry and is past the choice of what to type
KeysChosen == run.pc \notin {"scan", "select", "get"} /\ run.entry # NoneVal

\* the token that stands for the value of a field
FieldToken(field) == <<"<">> \o field \o <<">">>

IsFieldToken(k) == k[1] = "<" /\ k[Len(k)] = ">"

\* the field that a token of the form <field> names
FieldNamed(k) == SubSeq(k, 2, Len(k) - 1)

\* what is injected for token k: the value of the field for <field>, a pause
\* for !seconds, and the key itself for any other token
Injected(k) ==
    IF IsFieldToken(k) THEN FieldKey(FieldNamed(k))
    ELSE IF k[1] = "!" THEN DelayKey
    ELSE PressKey(k)

\* the places of the tokens <field> whose field the entry chosen lacks or
\* has empty
Unfilled ==
    {j \in 1..Len(run.keys) :
        IsFieldToken(run.keys[j]) /\ ~Filled(run.entry, FieldNamed(run.keys[j]))}

StartedProc(c) ==
    [pc |-> IF c = "init" THEN "open" ELSE "isfile", cmd |-> c, fd |-> NoInode,
     loaded |-> NoFile,
     registered |-> FALSE, decrypted |-> FALSE, wrote |-> FALSE, writes |-> 0,
     sawholder |-> FALSE, alone |-> FALSE, outcome |-> "none",
     exits |-> <<>>, hooked |-> "no", overtook |-> FALSE]

\* the processes other than p that are running
Running(p) == {q \in Procs \ {p} : procs[q].pc \notin {"idle", "terminated"}}

\* what process p writes to the database file
WrittenBy(p) == encrypt(YamlText(Scalar(p)))

\* p has returned from lock_file and has not exited
Holds(p) == procs[p].pc \notin {"idle", "terminated"} /\ procs[p].registered

\* p has replaced the database file and its post-write hook has not run
HookPending(p) ==
    procs[p].pc \notin {"idle", "terminated"} /\ procs[p].wrote /\ procs[p].hooked = "no"

\* atexit.register(func): func joins the exit handlers of the process
Register(handlers, func) == Append(handlers, func)

\* DB.write: execute_post_write_hook is registered unless it was before
RegisterOnce(handlers, func) ==
    IF \E i \in 1..Len(handlers) : handlers[i] = func THEN handlers
    ELSE Register(handlers, func)

\* atexit runs the handlers last registered first
NextHandler(handlers) == Len(handlers)

\* the handlers but the i-th
Without(handlers, i) ==
    SubSeq(handlers, 1, i - 1) \o SubSeq(handlers, i + 1, Len(handlers))

LockInit ==
    /\ db = EmptyDict
    /\ status = "ok"
    /\ last = NoCall
    /\ dbfile \in {NoFile, encrypt(EmptyText)}
    /\ LockIdle
    /\ run = NoRun

\* a passata command is started
Start(p, c) ==
    /\ procs[p].pc = "idle"
    /\ procs' = [procs EXCEPT ![p] = StartedProc(c)]
    /\ UNCHANGED <<dbfile, lockpath, held>>
    /\ UNCHANGED storevars
    /\ UNCHANGED cmdvars

\* DB.read: os.path.isfile(self.path)
IsFile(p) ==
    /\ procs[p].pc = "isfile"
    /\ procs' = IF dbfile = NoFile
                THEN [procs EXCEPT ![p].pc = "atexit", ![p].outcome = "nofile"]
                ELSE [procs EXCEPT ![p].pc = IF procs[p].cmd = "show" THEN "read"
                                              ELSE "open"]
    /\ UNCHANGED <<dbfile, lockpath, held>>
    /\ UNCHANGED storevars
    /\ UNCHANGED cmdvars

\* lock_file: open(lockpath, "a") opens the file the path names, creating it
LockOpen(p) ==
    /\ procs[p].pc = "open"
    /\ lockpath' = IF lockpath = NoInode THEN p ELSE lockpath
    /\ procs' = [procs EXCEPT ![p].pc = "lockf", ![p].fd = lockpath']
    /\ UNCHANGED <<dbfile, held>>
    /\ UNCHANGED storevars
    /\ UNCHANGED cmdvars

\* a lock_file that registers unlock_file before it asks for the lock
RegisteredThenRefused(r) ==
    [r EXCEPT !.pc = "atexit", !.outcome = "contention", !.registered = TRUE,
              !.exits = Register(r.exits, "unlock_file")]

\* lock_file on IOError: sys.exit with the message of contention, before
\* atexit.register is reached
Refused(r) == [r EXCEPT !.pc = "atexit", !.outcome = "contention"]

\* lock_file: fcntl.lockf(lock, LOCK_EX | LOCK_NB) on the opened inode; on
\* IOError sys.exit, else atexit.register(unlock_file, path)
LockAcquire(p) ==
    /\ procs[p].pc = "lockf"
    /\ IF held[procs[p].fd] # NoProc
       THEN /\ procs' = [procs EXCEPT ![p] = [Refused(procs[p]) EXCEPT
                                                  !.alone = Running(p) = {},
                                                  !.sawholder = TRUE]]
            /\ UNCHANGED held
       ELSE /\ held' = [held EXCEPT ![procs[p].fd] = p]
            /\ procs' = [procs EXCEPT
                            ![p].pc = "locked",
                            ![p].registered = TRUE,
                            ![p].exits = Register(procs[p].exits, "unlock_file"),
                            ![p].overtook = \E q \in Procs \ {p} : HookPending(q),
                            ![p].alone = Running(p) = {},
                            ![p].sawholder = \E q \in Procs \ {p} : Holds(q)]
    /\ UNCHANGED <<dbfile, lockpath>>
    /\ UNCHANGED storevars
    /\ UNCHANGED cmdvars

\* DB.read after lock_file, or with lock=False after isfile:
\* self.decrypt(self.path) is given the file that is at the path now; for
\* a reader loaded notes that file and sawholder whether a process held the
\* lock meanwhile
Decrypt(p) ==
    /\ \/ procs[p].pc = "locked" /\ procs[p].cmd = "mutate"
       \/ procs[p].pc = "read"
    /\ procs' = [procs EXCEPT
                    ![p].pc = "work", ![p].decrypted = TRUE,
                    ![p].loaded = IF procs[p].cmd = "show" THEN dbfile ELSE NoFile,
                    ![p].sawholder = IF procs[p].cmd = "show"
                                     THEN \E q \in Procs \ {p} : Holds(q)
                                     ELSE procs[p].sawholder]
    /\ UNCHANGED <<dbfile, lockpath, held>>
    /\ UNCHANGED storevars
    /\ UNCHANGED cmdvars

\* init after lock_file: write_config, where a declined overwrite exits
InitConfig(p, answer) ==
    /\ procs[p].pc = "locked"
    /\ procs[p].cmd = "init"
    /\ procs' = IF answer THEN [procs EXCEPT ![p].pc = "work"]
                ELSE [procs EXCEPT ![p].pc = "atexit", ![p].outcome = "declined"]
    /\ UNCHANGED <<dbfile, lockpath, held>>
    /\ UNCHANGED storevars
    /\ UNCHANGED cmdvars

\* an exit that leaves the locks of the process in place
KeepLocks(h, p) == h

\* the locks left when the descriptors of p are closed: lockf locks belong
\* to the process and go with the descriptor that lock_file kept open
CloseAll(h, p) == [i \in Procs |-> IF h[i] = p THEN NoProc ELSE h[i]]

\* a lock taken on the database file itself, which os.replace removes
LostOnReplace(h, p) == CloseAll(h, p)

\* the locks after os.replace on the database path: the lock is on the file
\* f"{path}.lock", which the replace does not touch
AfterReplace(h, p) == h

\* the writes of a command: one, or with edit one for every save handled
\* and one when the editor has exited
MostWrites(c) == IF c = "init" THEN 1 ELSE IF c = "show" THEN 0 ELSE MaxSaves + 1

\* DB.write up to the flush: the ciphertext is written to a temporary file
WriteTemp(p) ==
    /\ procs[p].pc \in {"work", "written"}
    /\ procs[p].writes < MostWrites(procs[p].cmd)
    /\ dbfile' = temp_write([dbfile |-> dbfile, temp |-> NoFile], WrittenBy(p)).dbfile
    /\ procs' = [procs EXCEPT ![p].pc = "replace"]
    /\ UNCHANGED <<lockpath, held>>
    /\ UNCHANGED storevars
    /\ UNCHANGED cmdvars

\* DB.write: os.replace puts the new ciphertext at the database path
Write(p) ==
    /\ procs[p].pc = "replace"
    /\ dbfile' = WrittenBy(p)
    /\ procs' = [procs EXCEPT ![p].pc = "written", ![p].wrote = TRUE,
                              ![p].writes = procs[p].writes + 1,
                              ![p].exits = RegisterOnce(procs[p].exits,
                                                        "execute_post_write_hook")]
    /\ held' = AfterReplace(held, p)
    /\ UNCHANGED lockpath
    /\ UNCHANGED storevars
    /\ UNCHANGED cmdvars

\* the command returns or ends in sys.exit: the exit handlers start
Finish(p) ==
    /\ procs[p].pc \in {"work", "written"}
    /\ procs' = [procs EXCEPT ![p].pc = "atexit", ![p].outcome = "done"]
    /\ UNCHANGED <<dbfile, lockpath, held>>
    /\ UNCHANGED storevars
    /\ UNCHANGED cmdvars

\* atexit: one exit handler runs, if any is left.  unlock_file unlinks
\* whatever file the lock path names; execute_post_write_hook calls the
\* hook, and hooked notes whether the process still had its lock file in
\* place and locked then
AtExit(p) ==
    /\ procs[p].pc = "atexit"
    /\ IF procs[p].exits = <<>>
       THEN /\ procs' = [procs EXCEPT ![p].pc = "closing"]
            /\ UNCHANGED lockpath
       ELSE LET i == NextHandler(procs[p].exits)
                rest == Without(procs[p].exits, i) IN
            /\ lockpath' = IF procs[p].exits[i] = "unlock_file" THEN NoInode
                           ELSE lockpath
            /\ procs' = [procs EXCEPT
                            ![p].exits = rest,
                            ![p].pc = IF rest = <<>> THEN "closing" ELSE "atexit",
                            ![p].hooked =
                                IF procs[p].exits[i] # "execute_post_write_hook"
                                THEN procs[p].hooked
                                ELSE IF \E j \in 1..Len(rest) : rest[j] = "unlock_file"
                                     THEN "locked" ELSE "unlocked"]
    /\ UNCHANGED <<dbfile, held>>
    /\ UNCHANGED storevars
    /\ UNCHANGED cmdvars

\* the process ends: its descriptors are closed, which drops its locks;
\* of the process only how it ended is kept
Terminate(p) ==
    /\ procs[p].pc = "closing"
    /\ held' = CloseAll(held, p)
    /\ procs' = [procs EXCEPT ![p] = [StartedProc(procs[p].cmd) EXCEPT
                                         !.pc = "terminated",
                                         !.registered = procs[p].registered,
                                         !.outcome = procs[p].outcome]]
    /\ UNCHANGED <<dbfile, lockpath>>
    /\ UNCHANGED storevars
    /\ UNCHANGED cmdvars

LockNext ==
    \/ \E p \in Early : \E c \in {"mutate", "init", "show"} : Start(p, c)
    \/ \E p \in Procs : IsFile(p)
    \/ \E p \in Procs : LockOpen(p)
    \/ \E p \in Procs : LockAcquire(p)
    \/ \E p \in Procs : Decrypt(p)
    \/ \E p \in Procs : \E answer \in BOOLEAN : InitConfig(p, answer)
    \/ \E p \in Procs : WriteTemp(p)
    \/ \E p \in Procs : Write(p)
    \/ \E p \in Procs : Finish(p)
    \/ \E p \in Procs : AtExit(p)
    \/ \E p \in Procs : Terminate(p)

SpecLock == LockInit /\ [][LockNext]_vars

\* the steps of a process that was started
ProcStep(p) ==
    \/ IsFile(p)
    \/ LockOpen(p)
    \/ LockAcquire(p)
    \/ Decrypt(p)
    \/ \E answer \in BOOLEAN : InitConfig(p, answer)
    \/ WriteTemp(p)
    \/ Write(p)
    \/ Finish(p)
    \/ AtExit(p)
    \/ Terminate(p)

(***************************************************************************)
(* Properties of the lock (checked under SpecLock).                        *)
(***************************************************************************)
\* C1: at most one process at a time has returned from lock_file and has
\* not yet exited, whatever the interleaving, also when a process starts
\* while another one is exiting and removing the lock file.
C1_MutualExclusion == Cardinality({p \in Procs : Holds(p)}) <= 1

\* C2: a process that calls read(lock=True) and reaches lockf while another
\* process holds the lock ends with "Another passata process is editing the
\* database", having neither decrypted nor changed the database file.
C2_ContentionFailsFast ==
    \A p \in Procs :
        (procs[p].pc # "idle" /\ procs[p].cmd = "mutate" /\ procs[p].sawholder) =>
            /\ procs[p].outcome = "contention"
            /\ ~procs[p].decrypted
            /\ ~procs[p].wrote

\* how far a process is on its way from start to end; the steps of its
\* writes are counted apart
RankOf ==
    [pc \in {"idle", "isfile", "open", "lockf", "locked", "read", "work", "replace",
             "written", "atexit", "closing", "terminated"} |->
        IF pc = "idle" THEN 0
        ELSE IF pc = "isfile" THEN 1
        ELSE IF pc = "open" THEN 2
        ELSE IF pc = "lockf" THEN 3
        ELSE IF pc \in {"locked", "read"} THEN 4
        ELSE IF pc \in {"work", "replace", "written"} THEN 5
        ELSE IF pc = "atexit" THEN 6
        ELSE IF pc = "closing" THEN 7
        ELSE 8]

Rank(pc) == RankOf[pc]

WriteSteps(r) == 2 * r.writes + (IF r.pc = "replace" THEN 1 ELSE 0)

\* C21: a process that has ended holds no lock, however it ended; a process
\* is refused the lock only while another process is running, never because
\* of a process that has exited; and a process that acquired the lock
\* completes: whatever the other processes do, its next step never waits,
\* every step takes it further (or is one more of its writes or of its
\* exit handlers), and it ends with its command done or its prompt declined.
C21_LockReleased ==
    /\ [](\A p \in Procs :
             procs[p].pc = "terminated" => \A i \in Procs : held[i] # p)
    /\ [](\A p \in Procs :
             (procs[p].pc # "idle" /\ procs[p].outcome = "contention") =>
                 ~procs[p].alone)
    /\ [](\A p \in Procs :
             /\ procs[p].pc \notin {"idle", "terminated"} => ENABLED ProcStep(p)
             /\ (procs[p].pc = "terminated" /\ procs[p].registered) =>
                    procs[p].outcome \in {"done", "declined"})
    /\ [][\A p \in Procs :
             procs'[p] # procs[p] =>
                 \/ Rank(procs'[p].pc) > Rank(procs[p].pc)
                 \/ /\ Rank(procs'[p].pc) = Rank(procs[p].pc)
                    /\ \/ WriteSteps(procs'[p]) > WriteSteps(procs[p])
                       \/ Len(procs'[p].exits) < Len(procs[p].exits)]_vars

\* C22: a process takes the lock only when it has not taken it before; from
\* then until it has ended it holds the lock on the descriptor lock_file
\* gave it; and every step in which it replaces the database file, the
\* first as well as a later one, starts and ends with that lock held.
C22_LockForLife ==
    /\ [](\A p \in Procs :
             (procs[p].pc \notin {"idle", "terminated"} /\ procs[p].registered) =>
                 held[procs[p].fd] = p)
    /\ [][\A p \in Procs :
             /\ (\E i \in Procs : held'[i] = p /\ held[i] # p) =>
                    ~procs[p].registered
             /\ (procs[p].pc # "idle" /\ procs'[p].writes > procs[p].writes) =>
                    /\ procs[p].registered
                    /\ held[procs[p].fd] = p
                    /\ held'[procs'[p].fd] = p]_vars

\* a process has replaced the database file twice and holds the lock
C22_Witness ==
    \E p \in Procs :
        /\ procs[p].pc = "written"
        /\ procs[p].writes = 2
        /\ held[procs[p].fd] = p

\* the files that have been at the database path: the one found at the
\* start and the ones that the writers put there
WholeFiles == {encrypt(EmptyText)} \cup {WrittenBy(q) : q \in Procs}

\* C23: a read-only command never opens the lock file, never asks for the
\* lock and never ends with the message of contention, whoever holds the
\* lock; once it has gone past decrypt, what decrypt was given is a whole
\* database file, the one found at the start or one that a writer put in
\* place, and the command ends done.
C23_ReadersUnlocked ==
    \A p \in Procs :
        (procs[p].pc # "idle" /\ procs[p].cmd = "show") =>
            /\ procs[p].fd = NoInode
            /\ ~procs[p].registered
            /\ \A i \in Procs : held[i] # p
            /\ lockpath # p
            /\ procs[p].outcome \in {"none", "nofile", "done"}
            /\ procs[p].decrypted =>
                   /\ Complete(procs[p].loaded)
                   /\ procs[p].loaded \in WholeFiles
            /\ (procs[p].pc = "closing" /\ procs[p].decrypted) =>
                   procs[p].outcome = "done"

\* a reader has loaded what a writer wrote, while that writer, with the
\* lock held, was writing once more
C23_Witness ==
    \E p, q \in Procs :
        /\ procs[p].pc = "closing" /\ procs[p].cmd = "show"
        /\ procs[p].sawholder /\ procs[p].loaded = WrittenBy(q)
        /\ procs[q].pc = "replace" /\ Holds(q)

\* a process declined its prompt and ended, and a mutating command started
\* after it took the lock with no other process running and is ending, done
C21_Witness ==
    \E p, q \in Procs :
        /\ procs[p].pc = "terminated" /\ procs[p].registered
        /\ procs[p].outcome = "declined"
        /\ procs[q].pc = "closing" /\ procs[q].registered
        /\ procs[q].cmd = "mutate" /\ procs[q].alone
        /\ procs[q].outcome = "done" /\ procs[q].wrote

(***************************************************************************)
(* One passata process running rm or mv against the database file:         *)
(* DB.read(lock=True), the command's gets, pops and puts, DB.write step by *)
(* step, and the exit handlers.  The process may be killed after any step. *)
(***************************************************************************)
CmdNames ==
    { <<"a", "/", "a">>, <<"a", "/", "b">>, <<"b", "/", "a">>, <<"a">>, <<"b">> }

\* the name "/", which isgroup takes for a group and split gives the empty
\* group name
NoGroupName == <<Slash>>

\* the argument lists of at least one and at most n names
RECURSIVE ArgLists(_)
ArgLists(n) ==
    IF n = 1 THEN {<<name>> : name \in CmdNames}
    ELSE ArgLists(n - 1) \cup
         {Append(names, name) : names \in ArgLists(n - 1), name \in CmdNames}

\* the names given to edit, and what the user leaves in the edited file: a
\* YAML document (a mapping, or the plain word foo), nothing at all, or
\* text that is no YAML
EditNames == { <<"a", "/", "a">>, <<"b", "/", "a">> }
InvalidYaml == [t |-> "invalid"]
PlainWord == YamlText(Scalar("foo"))

\* text that the scanner of YAML accepts and its parser rejects, as the
\* flow sequence `[a` that is never closed
Unclosed == [t |-> "unclosed"]
EditedTexts ==
    {YamlText(Entry1), YamlText(Entry2), PlainWord, EmptyText, InvalidYaml, Unclosed}

\* what yaml.safe_load raises for the text, "" when it returns a value
Raises(text) ==
    IF text = InvalidYaml THEN "ScannerError"
    ELSE IF text = Unclosed THEN "ParserError"
    ELSE ""

\* an `except` that catches every error of YAML
CaughtAny(text) == Raises(text) # ""

\* edit: `except yaml.scanner.ScannerError`
Caught(text) == Raises(text) = "ScannerError"

\* what an exception that nothing catches leaves on the terminal
Traceback == "Traceback (most recent call last)"

\* force is FALSE for the commands that have no --force option
Commands ==
    {[op |-> "rm", names |-> names, force |-> force] :
        names \in ArgLists(MaxArgs), force \in BOOLEAN}
    \cup
    {[op |-> "mv", source |-> source, dest |-> dest, force |-> force] :
        source \in ArgLists(MaxArgs) \cup {<<NoGroupName>>},
        dest \in CmdNames, force \in BOOLEAN}
    \cup
    {[op |-> op, name |-> name, force |-> force] :
        op \in {"insert", "generate"}, name \in CmdNames, force \in BOOLEAN}
    \cup
    {[op |-> "show", name |-> name, force |-> FALSE] : name \in CmdNames \cup {None}}
    \cup
    {[op |-> "edit", name |-> name, force |-> FALSE] : name \in EditNames}
    \cup
    {[op |-> "init", force |-> force] : force \in BOOLEAN}

\* the commands that take the lock: read(lock=True), or lock_file in init
Locking(c) == c.op # "show"

old_password ==
    <<"o", "l", "d", "_", "p", "a", "s", "s", "w", "o", "r", "d">>

\* an entry whose password was updated before
Updated ==
    Dict(<< <<old_password, Scalar("zz")>>, <<password, Scalar("gh")>>,
            <<username, Scalar("sakis")>> >>)

\* the Databases of the files the command finds
RunDatabases ==
    { EmptyDict,
      Dict(<< <<(<<"a">>), Dict(<< <<(<<"a">>), Entry1>> >>)>> >>),
      Dict(<< <<(<<"a">>), Dict(<< <<(<<"a">>), Entry1>>, <<(<<"b">>), Entry2>> >>)>> >>),
      Dict(<< <<(<<"a">>), Dict(<< <<(<<"a">>), Entry1>> >>)>>,
              <<(<<"b">>), Dict(<< <<(<<"a">>), Entry2>> >>)>> >>),
      Dict(<< <<(<<"a">>), Dict(<< <<(<<"a">>), NoPassword>> >>)>> >>),
      Dict(<< <<(<<"a">>), Dict(<< <<(<<"a">>), Updated>> >>)>> >>) }

\* a file just created, with no bytes
NewFile == [t |-> "empty"]

\* no write has been entered
NoWrite == [t |-> "nowrite"]

\* the DB object after __init__, before the command's first step; resume is
\* where the caller of write goes on, replaces counts the os.replace calls
\* made and file0 is the database file the process found when it started
StartedRun(c) ==
    [pc |-> IF c.op = "generate" THEN "genpw"
            ELSE IF c.op = "insert" THEN "check"
            ELSE IF c.op = "init" THEN "initlock" ELSE "read",
     cmd |-> c, saves |-> 0, data |-> NoneVal, temp |-> NoFile,
     encrypts |-> 0, synced |-> FALSE, hook |-> FALSE, registered |-> 0, hookruns |-> 0,
     i |-> 1, w |-> NoWrite, resume |-> "exit", replaces |-> 0, file0 |-> NoFile,
     message |-> "", lockfile |-> FALSE, locked |-> FALSE,
     edited |-> NoneVal, open |-> FALSE, pending |-> FALSE, watching |-> FALSE,
     waited |-> FALSE]

\* os.path.join(a, b)
PathJoin(a, b) ==
    IF b # <<>> /\ b[1] = Slash THEN b
    ELSE IF a = <<>> \/ a[Len(a)] = Slash THEN a \o b
    ELSE a \o <<Slash>> \o b

\* an rm that takes a name pop did not find for removed
RmPopIgnoringMissing(d, name, force, answer) ==
    LET r == pop(d, name, force, answer)
    IN  [db |-> r.db, status |-> r.status,
         last |-> [op |-> "pop", name |-> name, force |-> force, pre |-> d,
                   ret |-> r.ret, asked |-> r.asked]]

\* rm: db.pop(name, force), and sys.exit("<name> not found") when it
\* returns None
RmPop(d, name, force, answer) ==
    LET r == pop(d, name, force, answer)
    IN  [db |-> r.db,
         status |-> IF r.status # "ok" THEN r.status
                    ELSE IF r.ret = NoneVal THEN "exit1" ELSE "ok",
         last |-> [op |-> "pop", name |-> name, force |-> force, pre |-> d,
                   ret |-> r.ret, asked |-> r.asked]]

\* what mv records of a move: the Database before, after the pop (mid), and
\* the value popped; moved is FALSE when mv ended before the pop
MvRecord(name, newname, pre, mid, ret, moved) ==
    [op |-> "mv", name |-> name, newname |-> newname, pre |-> pre, mid |-> mid,
     ret |-> ret, moved |-> moved]

\* what mv says when it ends with sys.exit, after the name it is about
NotAGroup == "is not a group"
NotFound == "not found"
AlreadyExists == "already exists"
TooDeep == "is nested too deeply"

\* mv of a group: `if db.get(dest) is not None`
GroupTaken(target) == target # NoneVal

\* a mv that takes every DEST for the new name, group or not
DestOnly(dest, entryname) == dest

\* mv: the name an entry is moved to
NewName(dest, entryname) ==
    IF isgroup(dest) THEN PathJoin(dest, entryname) ELSE dest

\* mv: the branch that moves a whole group; answer is the user's reply to
\* every prompt shown
MvGroup(d, groupname, dest, answer) ==
    LET found == get(d, groupname)
        target == get(d, dest)
        popped == pop(d, groupname, TRUE, TRUE)
        stored == put(popped.db, dest, popped.ret, answer)
        stop(code, message) ==
            [db |-> d, status |-> code, message |-> message,
             last |-> MvRecord(groupname, dest, d, d, NoneVal, FALSE)]
    IN  IF ~isgroup(dest) THEN stop("exit1", NotAGroup)
        ELSE IF found.status # "ok" THEN stop("exit1", TooDeep)
        ELSE IF found.ret = NoneVal THEN stop("exit1", NotFound)
        ELSE IF target.status # "ok" THEN stop("exit1", TooDeep)
        ELSE IF GroupTaken(target.ret) THEN stop("exit1", AlreadyExists)
        ELSE [db |-> stored.db, status |-> stored.status, message |-> "",
              last |-> MvRecord(groupname, dest, d, popped.db, popped.ret, TRUE)]

\* mv: the body of the loop over the sources; a failed assert ends the
\* process like sys.exit with a message does
MvEntry(d, name, dest, force, answer) ==
    LET found == get(d, name)
        entryname == split(name).entryname
        newname == NewName(dest, entryname)
        target == get(d, newname)
        popped == pop(d, name, TRUE, TRUE)
        stored == put(popped.db, newname, popped.ret, answer)
        stop(code, message) ==
            [db |-> d, status |-> code, message |-> message,
             last |-> MvRecord(name, dest, d, d, NoneVal, FALSE)]
    IN  IF found.status # "ok" THEN stop("exit1", TooDeep)
        ELSE IF found.ret = NoneVal THEN stop("exit1", NotFound)
        ELSE IF entryname = None THEN stop("exit1", "AssertionError")
        ELSE IF target.status # "ok" THEN stop("exit1", TooDeep)
        ELSE IF target.ret # NoneVal /\ ~Confirmed(force, answer)
        THEN stop("exit0", "Aborted!")
        ELSE [db |-> stored.db, status |-> stored.status, message |-> "",
              last |-> MvRecord(name, newname, d, popped.db, popped.ret, TRUE)]

\* a write that never takes the early return
NeverSkipped(data, baseline) == FALSE

\* DB.write: `if data == self.data: return`
WriteSkipped(data, baseline) == data = baseline

\* the process is at position pc and has not been killed
At(pc) == run.pc = pc /\ status # "crashed"

\* a loop that goes on after sys.exit was called
AfterIgnoringExit(code, pc) == pc

\* where the process goes on after a step that ended with status code
After(code, pc) == IF code = "ok" THEN pc ELSE "exit"

lockidle == <<lockpath, held, procs>>

RunInit ==
    /\ db = EmptyDict
    /\ status = "ok"
    /\ last = NoCall
    /\ dbfile \in {NoFile} \cup {encrypt(to_string(d)) : d \in RunDatabases}
    /\ LockIdle
    /\ \E c \in Commands : run = [StartedRun(c) EXCEPT !.file0 = dbfile]

Busy == "Another passata process is editing the database"
NotExisting == "Database file (path) does not exist"

\* a read that calls lock_file before it looks for the database file
read_lock_first(exists, lock, busy) ==
    IF lock /\ busy
    THEN [message |-> Busy, lockfile |-> TRUE, locked |-> FALSE]
    ELSE IF ~exists
    THEN [message |-> NotExisting, lockfile |-> lock, locked |-> lock]
    ELSE [message |-> "", lockfile |-> lock, locked |-> lock]

\* DB.read up to decrypt: the message of its sys.exit, empty when it goes
\* on to decrypt, whether lock_file opened the lock file and whether it
\* returned with the lock; busy says that the lock is held by another process
read(exists, lock, busy) ==
    IF ~exists
    THEN [message |-> NotExisting, lockfile |-> FALSE, locked |-> FALSE]
    ELSE IF lock /\ busy
    THEN [message |-> Busy, lockfile |-> TRUE, locked |-> FALSE]
    ELSE [message |-> "", lockfile |-> lock, locked |-> lock]

\* DB.read: exits when the file is missing or, with lock=True, when
\* lock_file finds the lock held (busy); else decrypts, parses and validates
Read(busy) ==
    LET r == read(dbfile # NoFile, Locking(run.cmd), busy)
        entered == [run EXCEPT !.message = r.message, !.lockfile = r.lockfile,
                               !.locked = r.locked]
        loaded == to_dict(decrypt(dbfile))
    IN  /\ At("read")
        /\ IF r.message # ""
           THEN /\ status' = "exit1"
                /\ run' = [entered EXCEPT !.pc = "exit"]
                /\ UNCHANGED db
           ELSE IF validate(loaded) # ""
           THEN /\ status' = "exit1"
                /\ run' = [entered EXCEPT !.pc = "exit", !.data = decrypt(dbfile),
                                          !.message = validate(loaded)]
                /\ db' = loaded
           ELSE /\ run' = [entered EXCEPT !.pc = "body", !.data = decrypt(dbfile)]
                /\ db' = loaded
                /\ UNCHANGED status
    /\ UNCHANGED <<last, dbfile>>
    /\ UNCHANGED lockidle

\* rm with one name
RmSingle(answer) ==
    LET r == RmPop(db, run.cmd.names[1], run.cmd.force, answer)
    IN  /\ At("body")
        /\ run.cmd.op = "rm"
        /\ Len(run.cmd.names) = 1
        /\ db' = r.db
        /\ status' = r.status
        /\ last' = r.last
        /\ run' = [run EXCEPT !.pc = After(r.status, "write")]
        /\ UNCHANGED dbfile
        /\ UNCHANGED lockidle

\* rm with several names: confirm("Delete <n> arguments?", force)
RmConfirm(answer) ==
    /\ At("body")
    /\ run.cmd.op = "rm"
    /\ Len(run.cmd.names) > 1
    /\ status' = IF Confirmed(run.cmd.force, answer) THEN "ok" ELSE "exit0"
    /\ run' = [run EXCEPT !.pc = After(status', "rmloop")]
    /\ UNCHANGED <<db, last, dbfile>>
    /\ UNCHANGED lockidle

\* a loop that writes the file in every turn and then goes on
IterNextWriting(i, n, loop) ==
    [pc |-> "write", resume |-> IF i = n THEN "exit" ELSE loop]

\* the `for` loops of rm and mv: after turn i of n the loop goes on, and
\* db.write follows the last turn, after which the command returns
IterNext(i, n, loop) ==
    [pc |-> IF i = n THEN "write" ELSE loop, resume |-> "exit"]

\* rm with several names: one turn of the loop
RmIter ==
    LET r == RmPop(db, run.cmd.names[run.i], TRUE, TRUE)
        next == IterNext(run.i, Len(run.cmd.names), "rmloop")
    IN  /\ At("rmloop")
        /\ db' = r.db
        /\ status' = r.status
        /\ last' = r.last
        /\ run' = [run EXCEPT !.pc = After(r.status, next.pc),
                              !.resume = next.resume, !.i = run.i + 1]
        /\ UNCHANGED dbfile
        /\ UNCHANGED lockidle

\* mv: the checks on the arguments that choose the branch
MvCheck ==
    /\ At("body")
    /\ run.cmd.op = "mv"
    /\ IF Len(run.cmd.source) > 1 /\ ~isgroup(run.cmd.dest)
       THEN /\ status' = "exit1"
            /\ run' = [run EXCEPT !.pc = "exit", !.message = NotAGroup]
       ELSE /\ UNCHANGED status
            /\ run' = [run EXCEPT !.pc =
                          IF Len(run.cmd.source) = 1 /\ isgroup(run.cmd.source[1])
                          THEN "mvgroup" ELSE "mvloop"]
    /\ UNCHANGED <<db, last, dbfile>>
    /\ UNCHANGED lockidle

\* mv of a group
MvGroupMove(answer) ==
    LET r == MvGroup(db, run.cmd.source[1], run.cmd.dest, answer)
    IN  /\ At("mvgroup")
        /\ db' = r.db
        /\ status' = r.status
        /\ last' = r.last
        /\ run' = [run EXCEPT !.pc = After(r.status, "write"),
                              !.message = r.message]
        /\ UNCHANGED dbfile
        /\ UNCHANGED lockidle

\* mv of entries: one turn of the loop
MvIter(answer) ==
    LET r == MvEntry(db, run.cmd.source[run.i], run.cmd.dest, run.cmd.force, answer)
        next == IterNext(run.i, Len(run.cmd.source), "mvloop")
    IN  /\ At("mvloop")
        /\ db' = r.db
        /\ status' = r.status
        /\ last' = r.last
        /\ run' = [run EXCEPT !.pc = After(r.status, next.pc),
                              !.resume = next.resume, !.i = run.i + 1,
                              !.message = r.message]
        /\ UNCHANGED dbfile
        /\ UNCHANGED lockidle

\* the password given to insert, or made by generate_password
NewPassword == Scalar("new")

\* do_insert after read: a new entry is put; an existing entry is changed in
\* place, after a confirmation when it has a password, which is kept as
\* old_password
NoBackup(entry) == entry

\* entry["old_password"] = entry["password"]
Backup(entry) == DictSet(entry, old_password, DictGet(entry, password))

DoInsert(d, name, force, answer) ==
    LET found == get(d, name)
        sp == split(name)
        entry == found.ret
        backed == Backup(entry)
        changed == DictSet(IF HasKey(entry, password) THEN backed ELSE entry,
                           password, NewPassword)
        stored == put(d, name, Dict(<< <<password, NewPassword>> >>), answer)
        record(asked) ==
            [op |-> "insert", name |-> name, pre |-> d, asked |-> asked,
             declined |-> entry # NoneVal /\ HasKey(entry, password)
                          /\ ~Confirmed(force, answer)]
    IN  IF found.status # "ok"
        THEN [db |-> d, status |-> found.status, last |-> record("none")]
        ELSE IF entry = NoneVal
        THEN [db |-> stored.db, status |-> stored.status, last |-> record("none")]
        ELSE IF HasKey(entry, password) /\ ~Confirmed(force, answer)
        THEN [db |-> d, status |-> "exit0", last |-> record("overwrite")]
        ELSE [db |-> DictSet(d, sp.groupname,
                             DictSet(DictGet(d, sp.groupname), sp.entryname, changed)),
              status |-> "ok",
              last |-> record(IF HasKey(entry, password)
                              THEN Asked(force, "overwrite") ELSE "none")]

\* generate, generate_password: the words file is missing (sys.exit with
\* a message), or the password is weak and the prompt is declined, or a
\* password is made
GeneratePassword(outcome, answer) ==
    LET code == IF outcome = "nowords" THEN "exit1"
                ELSE IF outcome = "weak" /\ ~Confirmed(run.cmd.force, answer)
                THEN "exit0" ELSE "ok"
    IN  /\ At("genpw")
        /\ status' = code
        /\ run' = [run EXCEPT !.pc = After(code, "check"),
                              !.message = IF code = "exit1" THEN "No such file or directory"
                                          ELSE IF code = "exit0" THEN "Aborted!" ELSE ""]
        /\ UNCHANGED <<db, last, dbfile>>
        /\ UNCHANGED lockidle

\* a do_insert that takes any name
AnyNameTaken(name) == FALSE

\* do_insert: if isgroup(name)
GroupRejected(name) == isgroup(name)

\* do_insert: sys.exit("<name> is a group") before the database is read
InsertCheck ==
    /\ At("check")
    /\ status' = IF GroupRejected(run.cmd.name) THEN "exit1" ELSE "ok"
    /\ run' = [run EXCEPT !.pc = After(status', "read"),
                          !.message = IF GroupRejected(run.cmd.name)
                                      THEN "is a group" ELSE ""]
    /\ UNCHANGED <<db, last, dbfile>>
    /\ UNCHANGED lockidle

\* insert and generate: do_insert up to its db.write
InsertBody(answer) ==
    LET r == DoInsert(db, run.cmd.name, run.cmd.force, answer)
    IN  /\ At("body")
        /\ run.cmd.op \in {"insert", "generate"}
        /\ db' = r.db
        /\ status' = r.status
        /\ last' = r.last
        /\ run' = [run EXCEPT !.pc = After(r.status, "write")]
        /\ UNCHANGED dbfile
        /\ UNCHANGED lockidle

\* show: db.get(name), and sys.exit("<name> not found") when it is None
Show ==
    LET r == get(db, run.cmd.name)
    IN  /\ At("body")
        /\ run.cmd.op = "show"
        /\ status' = IF r.status # "ok" \/ r.ret = NoneVal THEN "exit1" ELSE "ok"
        /\ last' = [op |-> "get", name |-> run.cmd.name, pre |-> db, ret |-> r.ret]
        /\ run' = [run EXCEPT !.pc = "exit"]
        /\ UNCHANGED <<db, dbfile>>
        /\ UNCHANGED lockidle

\* edit: db.get(name), the temporary file is written (a comment and the
\* text of what was found), and the watcher and the editor are started
EditOpen ==
    LET r == get(db, run.cmd.name)
    IN  /\ At("body")
        /\ run.cmd.op = "edit"
        /\ status' = r.status
        /\ run' = [run EXCEPT !.pc = After(r.status, "editing"),
                              !.edited = IF r.status = "ok" THEN to_string(r.ret)
                                         ELSE NoneVal,
                              !.open = r.status = "ok",
                              !.watching = r.status = "ok"]
        /\ UNCHANGED <<db, last, dbfile>>
        /\ UNCHANGED lockidle

\* the observer's thread is inside on_modified, in its db.write
HandlerBusy(r) == r.resume = "editing" /\ r.pc # "editing"

\* the user saves text in the editor: the temporary file holds it, and the
\* observer, if its thread is alive, has an event to dispatch
EditorSave(text) ==
    /\ run.pc # "unused"
    /\ status # "crashed"
    /\ run.open
    /\ run.pc = "editing" \/ HandlerBusy(run)
    /\ run.saves < MaxSaves
    /\ run' = [run EXCEPT !.saves = run.saves + 1, !.edited = text,
                          !.pending = run.watching]
    /\ UNCHANGED <<db, status, last, dbfile>>
    /\ UNCHANGED lockidle

\* edit, EventHandler.on_modified: the temporary file is read; text that
\* raises ScannerError or is empty is ignored, else the value is put and
\* the database is written.  An exception that on_modified does not catch
\* ends the observer's thread, and the command goes on
EditSave ==
    LET text == run.edited
        raised == Raises(text) # "" /\ ~Caught(text)
        ignored == Caught(text) \/ raised \/ FalsyVal(to_dict(text))
        r == put(db, run.cmd.name, to_dict(text), TRUE)
        stopped == raised \/ (~ignored /\ r.status # "ok")
    IN  /\ At("editing")
        /\ run.pending
        /\ run.watching
        /\ db' = IF ignored THEN db ELSE r.db
        /\ last' = IF ignored THEN last
                   ELSE [op |-> "put", name |-> run.cmd.name, value |-> to_dict(text),
                         pre |-> db, ret |-> r.ret, asked |-> r.asked]
        /\ run' = [run EXCEPT !.pending = FALSE,
                              !.watching = ~stopped,
                              !.pc = IF ignored \/ stopped THEN "editing" ELSE "write",
                              !.resume = "editing"]
        /\ UNCHANGED <<status, dbfile>>
        /\ UNCHANGED lockidle

\* click.edit returns: the user has left the editor, saving text once more
\* on the way out or (text is None) leaving the file as it is; waited notes
\* that on_modified was running then
EditorExit(text) ==
    /\ run.pc # "unused"
    /\ status # "crashed"
    /\ run.open
    /\ run.pc = "editing" \/ HandlerBusy(run)
    /\ run' = IF text = NoneVal
               THEN [run EXCEPT !.open = FALSE, !.waited = HandlerBusy(run)]
               ELSE [run EXCEPT !.open = FALSE, !.waited = HandlerBusy(run),
                                !.edited = text, !.pending = run.watching]
    /\ UNCHANGED <<db, status, last, dbfile>>
    /\ UNCHANGED lockidle

\* an edit that goes on without waiting for the observer's thread
NotJoined(r) == TRUE

\* observer.stop() and observer.join(): the observer's thread has ended,
\* with the call of on_modified it was in
Joined(r) == r.pc = "editing"

\* edit after the editor has exited: the observer is stopped and joined,
\* the file is read one last time, and its value is put and written, or
\* sys.exit("Invalid yaml")
EditClose(answer) ==
    LET text == run.edited
        r == put(db, run.cmd.name, to_dict(text), answer)
    IN  /\ run.pc # "unused"
        /\ status # "crashed"
        /\ run.pc = "editing" \/ HandlerBusy(run)
        /\ ~run.open
        /\ Joined(run)
        /\ IF Raises(text) # ""
           THEN /\ status' = "exit1"
                /\ run' = [run EXCEPT !.pc = "exit", !.resume = "exit",
                                      !.pending = FALSE, !.watching = FALSE,
                                      !.message = IF Caught(text) THEN "Invalid yaml"
                                                  ELSE Traceback]
                /\ UNCHANGED <<db, last>>
           ELSE /\ db' = r.db
                /\ status' = r.status
                /\ last' = [op |-> "put", name |-> run.cmd.name,
                            value |-> to_dict(text), pre |-> db, ret |-> r.ret,
                            asked |-> r.asked]
                /\ run' = [run EXCEPT !.pc = After(r.status, "write"),
                                      !.resume = "exit", !.pending = FALSE,
                                      !.watching = FALSE]
        /\ UNCHANGED dbfile
        /\ UNCHANGED lockidle

\* init: lock_file(dbpath) exits when the lock is held (busy)
InitLock(busy) ==
    /\ At("initlock")
    /\ status' = IF busy THEN "exit1" ELSE "ok"
    /\ run' = [run EXCEPT !.pc = After(status', "initconf"),
                          !.message = IF busy THEN Busy ELSE "",
                          !.lockfile = TRUE, !.locked = ~busy]
    /\ UNCHANGED <<db, last, dbfile>>
    /\ UNCHANGED lockidle

\* init: write_config asks before it overwrites a configuration file that
\* exists; then db = DB(dbpath) and db.write(gpg_id, force)
WriteConfig(exists, answer) ==
    /\ At("initconf")
    /\ status' = IF exists /\ ~Confirmed(run.cmd.force, answer) THEN "exit0" ELSE "ok"
    /\ run' = [run EXCEPT !.pc = After(status', "write")]
    /\ UNCHANGED <<db, last, dbfile>>
    /\ UNCHANGED lockidle

\* the force argument of DB.write: True by default, --force in init
WriteForce(c) == c.op # "init" \/ c.force

\* DB.write: confirm_overwrite(self.path, force) asks when the file exists
\* and force is not set; then serialize, and return early when the text is
\* the baseline
WriteBegin(answer) ==
    LET data == to_string(db)
        declined == dbfile # NoFile /\ ~Confirmed(WriteForce(run.cmd), answer)
    IN  /\ At("write")
        /\ status' = IF declined THEN "exit0" ELSE status
        /\ run' = IF declined THEN [run EXCEPT !.pc = "exit"]
                   ELSE [run EXCEPT
                      !.w = [data |-> data, baseline |-> run.data, file |-> dbfile,
                             encrypts |-> run.encrypts, hook |-> run.hook,
                             failed |-> FALSE],
                      !.pc = IF WriteSkipped(data, run.data) THEN run.resume
                             ELSE "encrypt"]
        /\ UNCHANGED <<db, last, dbfile>>
        /\ UNCHANGED lockidle

\* DB.write: self.encrypt(data, gpg_id); sys.exit when gpg fails, which
\* in on_modified ends the observer's thread and not the command
Encrypt(ok) ==
    /\ At("encrypt")
    /\ status' = IF ok \/ HandlerBusy(run) THEN "ok" ELSE "exit1"
    /\ run' = IF ~ok /\ HandlerBusy(run)
               THEN [run EXCEPT !.encrypts = run.encrypts + 1, !.pc = "editing",
                                !.watching = FALSE, !.pending = FALSE,
                                !.w.failed = TRUE]
               ELSE [run EXCEPT !.encrypts = run.encrypts + 1,
                                !.pc = After(status', "mktemp"), !.w.failed = ~ok]
    /\ UNCHANGED <<db, last, dbfile>>
    /\ UNCHANGED lockidle

\* DB.write: NamedTemporaryFile(dir=dirname(path), delete=False)
TempCreate ==
    /\ At("mktemp")
    /\ run' = [run EXCEPT !.temp = NewFile, !.pc = "twrite"]
    /\ UNCHANGED <<db, status, last, dbfile>>
    /\ UNCHANGED lockidle

\* DB.write: temp.write(encrypted)
TempWrite ==
    LET files == temp_write([dbfile |-> dbfile, temp |-> run.temp],
                            encrypt(run.w.data))
    IN  /\ At("twrite")
        /\ dbfile' = files.dbfile
        /\ run' = [run EXCEPT !.temp = files.temp, !.pc = "flush"]
        /\ UNCHANGED <<db, status, last>>
        /\ UNCHANGED lockidle

\* DB.write: temp.flush(): all the bytes are in the temporary file
TempFlush ==
    /\ At("flush")
    /\ run' = [run EXCEPT !.temp = encrypt(run.w.data), !.pc = "fsync"]
    /\ UNCHANGED <<db, status, last, dbfile>>
    /\ UNCHANGED lockidle

\* DB.write: os.fsync(temp.fileno()), and the file is closed
TempSync ==
    /\ At("fsync")
    /\ run' = [run EXCEPT !.synced = TRUE, !.pc = "replace"]
    /\ UNCHANGED <<db, status, last, dbfile>>
    /\ UNCHANGED lockidle

\* DB.write: os.replace(temp.name, self.path)
Replace ==
    /\ At("replace")
    /\ dbfile' = run.temp
    /\ run' = [run EXCEPT !.temp = NoFile, !.replaces = run.replaces + 1,
                          !.pc = "written"]
    /\ UNCHANGED <<db, status, last>>
    /\ UNCHANGED lockidle

\* an exit handler is registered by every write that replaced the file
RegisterAlways(r) == [r EXCEPT !.hook = TRUE, !.registered = r.registered + 1]

\* the end of DB.write: execute_post_write_hook is registered as an exit
\* handler unless registered_post_write_hook says it was; hook is that flag
\* and registered the number of registrations
RegisterHook(r) ==
    IF r.hook THEN r ELSE [r EXCEPT !.hook = TRUE, !.registered = r.registered + 1]

\* a write that leaves the baseline as read found it
OldBaseline(r) == r.data

\* DB.write: `self.data = data`
NewBaseline(r) == r.w.data

\* DB.write: self.data = data, and the post-write hook is registered once
WriteEnd ==
    /\ At("written")
    /\ run' = [RegisterHook(run) EXCEPT !.data = NewBaseline(run), !.pc = run.resume]
    /\ UNCHANGED <<db, status, last, dbfile>>
    /\ UNCHANGED lockidle

\* the command returned or sys.exit was called: the exit handlers run,
\* execute_post_write_hook among them as often as it was registered
RunExit ==
    /\ At("exit")
    /\ run' = [run EXCEPT !.hookruns = run.hookruns + run.registered, !.pc = "done"]
    /\ UNCHANGED <<db, status, last, dbfile>>
    /\ UNCHANGED lockidle

\* the process is killed (or the machine stops) where it is
Crash ==
    /\ run.pc \notin {"done", "unused"}
    /\ status # "crashed"
    /\ status' = "crashed"
    /\ UNCHANGED <<db, last, dbfile, run>>
    /\ UNCHANGED lockidle

Init == RunInit

Next ==
    \/ \E busy \in BOOLEAN : Read(busy)
    \/ \E answer \in Answers(run.cmd.force) : RmSingle(answer)
    \/ \E answer \in Answers(run.cmd.force) : RmConfirm(answer)
    \/ RmIter
    \/ MvCheck
    \/ \E answer \in BOOLEAN : MvGroupMove(answer)
    \/ \E answer \in Answers(run.cmd.force) : MvIter(answer)
    \/ \E outcome \in {"ok", "weak", "nowords"} :
          \E answer \in Answers(run.cmd.force) : GeneratePassword(outcome, answer)
    \/ InsertCheck
    \/ \E answer \in Answers(run.cmd.force) : InsertBody(answer)
    \/ Show
    \/ EditOpen
    \/ \E text \in EditedTexts : EditorSave(text)
    \/ EditSave
    \/ \E text \in EditedTexts \cup {NoneVal} : EditorExit(text)
    \/ \E answer \in BOOLEAN : EditClose(answer)
    \/ \E busy \in BOOLEAN : InitLock(busy)
    \/ \E exists \in BOOLEAN : \E answer \in Answers(run.cmd.force) :
          WriteConfig(exists, answer)
    \/ \E answer \in Answers(WriteForce(run.cmd)) : WriteBegin(answer)
    \/ \E ok \in BOOLEAN : Encrypt(ok)
    \/ TempCreate
    \/ TempWrite
    \/ TempFlush
    \/ TempSync
    \/ Replace
    \/ WriteEnd
    \/ RunExit
    \/ Crash

Spec == Init /\ [][Next]_vars

(***************************************************************************)
(* Properties of the persistence protocol and of the commands (checked     *)
(* under Spec).                                                            *)
(***************************************************************************)
\* the positions of write before os.replace has happened
BeforeReplace == {"encrypt", "mktemp", "twrite", "flush", "fsync", "replace"}

\* the write entered last took the early return
Skipped == run.w # NoWrite /\ run.w.data = run.w.baseline

\* the write entered last got past os.replace
Replaced ==
    /\ run.w # NoWrite
    /\ ~Skipped
    /\ run.pc = "written" \/ run.data = run.w.data

\* C3: in every state of write, a kill after any of its steps included, the
\* database file holds all of the previous ciphertext or all of the new
\* one (or is absent, when init found no file), never a part of one, and it
\* is the previous one as long as os.replace has not happened.
C3_AtomicWrite ==
    /\ run.pc # "read" => Complete(dbfile) \/ dbfile = NoFile
    /\ (run.w # NoWrite /\ run.pc \in BeforeReplace) =>
           dbfile = run.w.file
    /\ (run.w # NoWrite /\ run.pc \notin BeforeReplace) =>
           dbfile \in {run.w.file, encrypt(run.w.data)}
    /\ Replaced => dbfile = encrypt(run.w.data)

\* the process is killed after fsync and before os.replace: the temporary
\* file holds the new ciphertext, the database file the previous one
C3_Witness ==
    /\ status = "crashed"
    /\ run.pc = "replace"
    /\ run.temp = encrypt(run.w.data)
    /\ dbfile = run.w.file
    /\ dbfile # run.temp

\* C4: a write of a Database that serializes to the baseline text recorded
\* by read makes no encryption call, creates no temporary file, leaves the
\* database file as it is and does not register the post-write hook.
C4_WriteSkip ==
    Skipped =>
        /\ run.pc \notin BeforeReplace \cup {"written"}
        /\ run.encrypts = run.w.encrypts
        /\ run.temp = NoFile
        /\ dbfile = run.w.file
        /\ run.hook = run.w.hook
        /\ ~run.w.hook => run.hookruns = 0
        /\ run.data = run.w.baseline

\* mv moved an entry onto its own name: the Database is the one read, the
\* write returned early and the command has ended
C4_Witness ==
    /\ Skipped
    /\ run.cmd.op = "mv"
    /\ last.op = "mv" /\ last.moved
    /\ run.w.baseline = decrypt(dbfile)
    /\ run.pc = "done"
    /\ status = "ok"

\* the pop made last by rm or mv took the only entry of its group
SoleEntryPopped ==
    /\ last.op \in {"pop", "mv"}
    /\ IF last.op = "pop" THEN status = "ok" ELSE last.moved
    /\ split(last.name).ok
    /\ ~Falsy(split(last.name).entryname)
    /\ HasKey(last.pre, split(last.name).groupname)
    /\ Keys(DictGet(last.pre, split(last.name).groupname)) =
           <<split(last.name).entryname>>

\* the Database right after the pop made last
AfterPop == IF last.op = "mv" THEN last.mid ELSE db

\* C6: a pop of g/e, confirmed or forced, made by rm of one name, rm of
\* several names or mv when e is the only entry of g returns the entry and
\* leaves a Database without group g, which is empty when g was the only
\* group; an mv to another group leaves the Database without g; and an
\* empty Database is written to the file as the empty string.
C6_LastEntryRemovesGroup ==
    /\ SoleEntryPopped =>
           LET groupname == split(last.name).groupname
               entryname == split(last.name).entryname
           IN  /\ last.ret = DictGet(DictGet(last.pre, groupname), entryname)
               /\ ~HasKey(AfterPop, groupname)
               /\ Keys(last.pre) = <<groupname>> => AfterPop = EmptyDict
               /\ (last.op = "mv" /\ split(last.newname).groupname # groupname) =>
                      ~HasKey(db, groupname)
    /\ (run.pc = "done" /\ status = "ok" /\ db = EmptyDict) =>
           dbfile = encrypt(EmptyText)

\* rm, with the confirmation given, took the only entry of the only group
\* and the command has ended: the file holds the empty string
C6_Witness ==
    /\ SoleEntryPopped
    /\ last.op = "pop" /\ last.asked = "entry"
    /\ Keys(last.pre) = <<split(last.name).groupname>>
    /\ run.pc = "done" /\ status = "ok"
    /\ db = EmptyDict
    /\ decrypt(dbfile) = EmptyText
\* rm of several names or mv of several sources ended in sys.exit
AbortedPartway ==
    /\ run.pc # "unused"
    /\ run.cmd.op \in {"rm", "mv"}
    /\ Len(IF run.cmd.op = "rm" THEN run.cmd.names ELSE run.cmd.source) > 1
    /\ status \in {"exit0", "exit1"}

\* C12: when rm with several names or mv with several sources ends partway
\* in sys.exit (a later name not found, a later source a group, a later
\* overwrite declined), the database file is the one the command found,
\* although earlier names were already removed or moved in memory; the file
\* is also the one found as long as the loop runs.
C12_NoPartialApplication ==
    /\ AbortedPartway => dbfile = run.file0
    /\ run.pc \in {"rmloop", "mvloop"} => dbfile = run.file0

\* rm of two names where the second is not found: the first was removed
\* from the Database in memory, the command has ended
C12_Witness ==
    /\ AbortedPartway
    /\ run.cmd.op = "rm"
    /\ run.pc = "done"
    /\ status = "exit1"
    /\ last.op = "pop" /\ last.name = run.cmd.names[2] /\ last.ret = NoneVal
    /\ db # to_dict(decrypt(run.file0))
    /\ dbfile = run.file0

\* the commands that change the Database
Mutating == {"insert", "generate", "edit", "rm", "mv"}

\* C13 as stated: within one run of insert, generate, edit, rm or mv the
\* database file is replaced at most once, and only after every mutation of
\* the Database in memory: once replaced, the file holds the Database.
C13_PersistOnce ==
    (run.pc # "unused" /\ run.cmd.op \in Mutating) =>
        /\ run.replaces <= 1
        /\ run.replaces = 1 => dbfile = encrypt(to_string(db))

\* C13 amended: insert, generate, rm and mv replace the database file at
\* most once, after their last mutation of the Database in memory, so the
\* file replaced holds the final Database.  edit replaces the file once for
\* every save of the edited file that its watcher handles and once more
\* after the editor exits, each time with the whole Database as it is after
\* the put of the text saved.
C13_PersistPerWrite ==
    (run.pc # "unused" /\ run.cmd.op \in Mutating) =>
        /\ run.cmd.op # "edit" =>
               /\ run.replaces <= 1
               /\ run.replaces = 1 => dbfile = encrypt(to_string(db))
        /\ run.cmd.op = "edit" =>
               /\ run.replaces <= run.saves + 1
               /\ run.pc = "written" => dbfile = encrypt(to_string(db))
               /\ (run.replaces > 0 /\ run.pc \in {"editing", "exit", "done"}
                     /\ status = "ok" /\ ~run.w.failed) =>
                      dbfile = encrypt(to_string(db))

\* edit replaced the file after a save and again after the editor exited
C13_Witness ==
    /\ run.pc = "done"
    /\ run.cmd.op = "edit"
    /\ run.replaces = 2
    /\ status = "ok"
    /\ dbfile = encrypt(to_string(db))

\* C14 as stated: whenever the user declines a prompt (the delete prompts of
\* pop, the overwrite prompts of insert and mv, the overwrite prompts of
\* write and init), the process exits with status 0 and the database file is
\* the one the command found when it started.
C14_DeclineChangesNothing == status = "exit0" => dbfile = run.file0

\* C14 amended: a declined prompt ends the process with status 0 at once:
\* no further step of the command runs and nothing is written after it.
\* For rm, mv, insert, generate and init the database file is the one the
\* command found when it started.  For edit the prompt comes after the
\* editor exited, so the file is the one found only when no save was written
\* before; else it holds the Database as the last save written left it,
\* which is also the Database in memory unless the encryption of a later
\* save failed.
C14_DeclineWritesNothing ==
    status = "exit0" =>
        /\ run.pc \in {"exit", "done"}
        /\ run.temp = NoFile
        /\ run.cmd.op # "edit" => dbfile = run.file0
        /\ (run.cmd.op = "edit" /\ run.replaces = 0) => dbfile = run.file0
        /\ (run.cmd.op = "edit" /\ run.replaces > 0) =>
               /\ dbfile = encrypt(run.data)
               /\ run.w.failed \/ dbfile = encrypt(to_string(db))

\* edit: a save was written, then the user emptied the file, left the editor
\* and declined the delete prompt
C14_Witness ==
    /\ status = "exit0"
    /\ run.cmd.op = "edit"
    /\ last.op = "put" /\ last.asked = "entry"
    /\ run.replaces = 1
    /\ dbfile # run.file0
    /\ run.pc = "done"

\* name is a group or an entry that Database d does not hold
Absent(d, name) ==
    LET sp == split(name)
    IN  /\ sp.ok
        /\ ~Falsy(sp.groupname)
        /\ \/ ~HasKey(d, sp.groupname)
           \/ ~Falsy(sp.entryname) /\ ~HasKey(DictGet(d, sp.groupname), sp.entryname)

\* the call made last by rm, mv or show named a group or entry that the
\* Database did not hold, and the process was not killed
NameNotFound ==
    /\ status # "crashed"
    /\ last.op \in {"pop", "mv", "get"}
    /\ Absent(last.pre, last.name)

C20_HookOnceAtExit ==
    /\ run.hookruns <= 1
    /\ run.hookruns = 1 => run.pc = "done" /\ run.replaces >= 1
    /\ run.replaces = 0 => run.hookruns = 0

\* edit replaced the file twice and the hook ran once, at exit
C20_Witness ==
    /\ run.pc = "done"
    /\ run.cmd.op = "edit"
    /\ run.replaces = 2
    /\ run.hookruns = 1

\* the encryption of the write entered last failed
EncryptFailed ==
    /\ status # "crashed"
    /\ run.w # NoWrite
    /\ run.w.failed

\* the command is exiting or has exited with an error, the database file is
\* the one that write found, no temporary file exists, encrypt was called
\* once for that write, and the write registered no hook
FatalAndHarmless ==
    /\ run.pc \in {"exit", "done"}
    /\ status = "exit1"
    /\ dbfile = run.w.file
    /\ run.temp = NoFile
    /\ run.encrypts = run.w.encrypts + 1
    /\ run.hook = run.w.hook
    /\ ~run.w.hook => run.registered = 0 /\ run.hookruns = 0

\* C24: when the encryption of a write fails, the process is exiting or has
\* exited with an error, the database file is the one that write found, no
\* temporary file exists, encrypt was called once for that write, and the
\* post-write hook is registered only if an earlier write registered it.
C24_EncryptFailure == EncryptFailed => FatalAndHarmless

\* a command that reads the database was started where no database file is,
\* and has gone past read
ReadNothing ==
    /\ run.cmd.op # "init"
    /\ run.file0 = NoFile
    /\ run.pc \notin {"genpw", "check", "read"}
    /\ run.message \notin {"is a group", "No such file or directory", "Aborted!"}

\* C25: read on a path where no database file is ends the process with
\* 'Database file (<path>) does not exist': the lock file was not opened and
\* the lock not taken, also with lock=True, nothing was decrypted, the
\* Database in memory is empty and there is still no database file.
C25_ReadNoFile ==
    ReadNothing =>
        /\ run.message = NotExisting
        /\ run.pc \in {"exit", "done"}
        /\ status \in {"exit1", "crashed"}
        /\ ~run.lockfile /\ ~run.locked
        /\ run.data = NoneVal
        /\ db = EmptyDict
        /\ dbfile = NoFile

\* rm, which reads with lock=True, has ended where no database file is
C25_Witness ==
    /\ ReadNothing
    /\ run.cmd.op = "rm"
    /\ run.pc = "done"
    /\ status = "exit1"

\* the names of the entries of d
EntryNames(d) == {Name(Pairs(d)[i]) : i \in 1..Len(Pairs(d))}

\* entry new has the fields of entry old, but for the fields named in keys
SameBut(new, old, keys) ==
    /\ KeySet(new) \ keys = KeySet(old) \ keys
    /\ \A k \in KeySet(old) \ keys : DictGet(new, k) = DictGet(old, k)

\* C26: after insert of password P under group/entry that was not declined:
\* if the entry did not exist, it now has the single field password = P; if
\* it had a password Q, it has password = P and old_password = Q and its
\* other fields are as they were; if it existed without a password, it has
\* password = P, its fields are as they were and it got no old_password.
\* All other entries are the ones there were, with the fields they had.
C26_Insert ==
    (last.op = "insert" /\ ~last.declined) =>
        LET old == get(last.pre, last.name).ret
            new == get(db, last.name).ret
        IN  /\ old = NoneVal => new = Dict(<< <<password, NewPassword>> >>)
            /\ old # NoneVal =>
                   /\ DictGet(new, password) = NewPassword
                   /\ SameBut(new, old, {password, old_password})
            /\ (old # NoneVal /\ HasKey(old, password)) =>
                   DictGet(new, old_password) = DictGet(old, password)
            /\ (old # NoneVal /\ ~HasKey(old, password)) =>
                   DictGet(new, old_password) = DictGet(old, old_password)
            /\ EntryNames(db) = EntryNames(last.pre) \cup {last.name}
            /\ \A name \in EntryNames(last.pre) \ {last.name} :
                   get(db, name).ret = get(last.pre, name).ret

\* the password of an entry that had an old password was replaced once more
C26_Witness ==
    /\ last.op = "insert"
    /\ ~last.declined
    /\ get(last.pre, last.name).ret = Updated
    /\ DictGet(get(db, last.name).ret, old_password) = Scalar("gh")
    /\ run.pc = "done"

\* insert, or generate once it has a password, was given the name of a
\* group and has gone past the check of do_insert
GroupGiven ==
    /\ run.cmd.op \in {"insert", "generate"}
    /\ isgroup(run.cmd.name)
    /\ run.pc \notin {"genpw", "check"}
    /\ run.message \notin {"No such file or directory", "Aborted!"}

\* C27: insert, and generate with a name, given a name of the form `group`
\* or `group/`, end with '<name> is a group' and a status that is not zero
\* before the database is read: the lock file is not opened, the lock not
\* taken, nothing is decrypted, the Database in memory is empty and the
\* database file is the one found, never replaced.
C27_GroupRejected ==
    GroupGiven =>
        /\ run.message = "is a group"
        /\ run.pc \in {"exit", "done"}
        /\ status \in {"exit1", "crashed"}
        /\ ~run.lockfile /\ ~run.locked
        /\ run.data = NoneVal
        /\ db = EmptyDict
        /\ dbfile = run.file0
        /\ run.replaces = 0

\* generate was given the name of a group that exists and has ended
C27_Witness ==
    /\ GroupGiven
    /\ run.cmd.op = "generate"
    /\ run.file0 # NoFile
    /\ HasKey(to_dict(decrypt(run.file0)), run.cmd.name)
    /\ run.pc = "done"
    /\ status = "exit1"

\* the Database of the file the command found when it started
Found == to_dict(decrypt(run.file0))

\* the name mv is to move source s to: DEST, or the entry of the group DEST
\* that has the entry name of s
MvDest(s) ==
    IF isgroup(run.cmd.dest)
    THEN split(run.cmd.dest).groupname \o <<Slash>> \o split(s).entryname
    ELSE run.cmd.dest

\* the places in the argument list of the sources that mv moves to name t
SourcesOf(t) ==
    {i \in 1..Len(run.cmd.source) : MvDest(run.cmd.source[i]) = t}

\* a mv whose sources are all names of entries has ended successfully
MvEntriesDone ==
    /\ run.cmd.op = "mv"
    /\ \A i \in 1..Len(run.cmd.source) : ~isgroup(run.cmd.source[i])
    /\ run.pc = "done"
    /\ status = "ok"

\* mv was given several sources and a DEST that is no group, the database
\* was read and mv has gone on from its first check
MvRefused ==
    /\ run.cmd.op = "mv"
    /\ Len(run.cmd.source) > 1
    /\ ~isgroup(run.cmd.dest)
    /\ run.pc \notin {"read", "body"}
    /\ run.message \notin {NotExisting, Busy}

\* the sources that are not their own destination are gone, no group is
\* empty and the entries that mv was not given are as they were
MvOthersKept ==
    LET given == {run.cmd.source[i] : i \in 1..Len(run.cmd.source)}
        dests == {MvDest(s) : s \in given}
    IN  /\ \A s \in given : s # MvDest(s) => get(db, s).ret = NoneVal
        /\ \A n \in (EntryNames(Found) \cup EntryNames(db)) \ (given \cup dests) :
               get(db, n).ret = get(Found, n).ret
        /\ \A g \in KeySet(db) : DictGet(db, g) # EmptyDict

MvRefusedCleanly ==
    MvRefused =>
        /\ status \in {"exit1", "crashed"}
        /\ run.message = NotAGroup
        /\ run.pc \in {"exit", "done"}
        /\ db = Found
        /\ dbfile = run.file0

MvGroupGiven ==
    /\ run.cmd.op = "mv"
    /\ Len(run.cmd.source) = 1
    /\ isgroup(run.cmd.source[1])
    /\ run.pc \notin {"read", "body", "mvgroup"}
    /\ run.message \notin {NotExisting, Busy}

\* the Database the command found holds a group of the name n
GroupFound(n) == HasKey(Found, split(n).groupname)

\* what mv of a group may say of source s and destination t when it refuses
Refusals(s, t) ==
    (IF ~isgroup(t) THEN {NotAGroup} ELSE {})
    \cup (IF ~GroupFound(s) THEN {NotFound} ELSE {})
    \cup (IF isgroup(t) /\ GroupFound(t) THEN {AlreadyExists} ELSE {})

\* C29: mv of a group onto the name of a group that exists ends with
\* '<dest> already exists', onto a name of an entry with '<dest> is not a
\* group', and mv of a group that does not exist with '<name> not found', the
\* Database and the database file being as they were found; otherwise the
\* group has the new name, its entries and their fields are as they were, as
\* are the other groups, and the file written holds that Database.
C29_MvGroup ==
    MvGroupGiven =>
        LET s == run.cmd.source[1]
            t == run.cmd.dest
            sg == split(s).groupname
            tg == split(t).groupname
        IN  /\ Refusals(s, t) # {} =>
                   /\ run.message \in Refusals(s, t)
                   /\ status \in {"exit1", "crashed"}
                   /\ run.pc \in {"exit", "done"}
                   /\ db = Found
                   /\ dbfile = run.file0
            /\ Refusals(s, t) = {} =>
                   /\ run.message = ""
                   /\ KeySet(db) = (KeySet(Found) \ {sg}) \cup {tg}
                   /\ DictGet(db, tg) = DictGet(Found, sg)
                   /\ \A g \in KeySet(Found) \ {sg} : DictGet(db, g) = DictGet(Found, g)
                   /\ (run.pc = "done" /\ status = "ok") =>
                          dbfile = encrypt(to_string(db))

\* C32: every database file that a command has written passes validate
\* when it is read again: the Database in it is a mapping whose groups are
\* mappings and whose entries are mappings.
C32_WellFormed ==
    run.replaces >= 1 => validate(to_dict(decrypt(dbfile))) = ""

\* the text of name before its first '/', and the text after it
BeforeSlash(name) ==
    SubSeq(name, 1, (CHOOSE i \in 1..Len(name) : name[i] = Slash /\
                        \A j \in 1..(i - 1) : name[j] # Slash) - 1)

AfterSlash(name) == SubSeq(name, Len(BeforeSlash(name)) + 2, Len(name))

\* put was called last, with a non-empty value and a name that has exactly
\* one '/' and text after it, and it returned
EntryPut ==
    /\ last.op = "put"
    /\ status = "ok"
    /\ ~FalsyVal(last.value)
    /\ NumSlashes(last.name) = 1
    /\ AfterSlash(last.name) # <<>>

\* C33: a put of a non-empty value under a name with exactly one '/' and
\* text after it changes only the entry named after the '/' in the group
\* named before it: every other group is there as before with the entries
\* and fields it had, and so is every other entry of that group.
C33_EntryPutFrame ==
    EntryPut =>
        LET g == BeforeSlash(last.name)
            e == AfterSlash(last.name)
            before == DictGet(last.pre, g)
            after == DictGet(db, g)
        IN  /\ KeySet(db) \ {g} = KeySet(last.pre) \ {g}
            /\ \A h \in KeySet(db) \ {g} : DictGet(db, h) = DictGet(last.pre, h)
            /\ HasKey(db, g)
            /\ KeySet(after) \ {e} = (IF before = NoneVal THEN {} ELSE KeySet(before)) \ {e}
            /\ \A f \in KeySet(after) \ {e} : DictGet(after, f) = DictGet(before, f)

\* a and b are equal as Python mappings: the same keys with equal values,
\* in whatever order the keys and the keys of the values are
SameMapping(a, b) ==
    /\ IsDict(a) /\ IsDict(b)
    /\ KeySet(a) = KeySet(b)
    /\ \A k \in KeySet(a) :
           LET x == DictGet(a, k)
               y == DictGet(b, k)
           IN  IF IsDict(x) /\ IsDict(y)
               THEN /\ KeySet(x) = KeySet(y)
                    /\ \A j \in KeySet(x) : DictGet(x, j) = DictGet(y, j)
               ELSE x = y

\* the call made last was given the name of a group or of an entry that
\* split accepts, and it returned
NamedCall ==
    /\ last.op \in {"put", "pop"}
    /\ status = "ok"
    /\ last.name \notin {None, <<>>}
    /\ split(last.name).ok

\* C34: for a name of a group or an entry that split accepts, get(name)
\* right after put(name, v) with v not empty returns a mapping equal to v;
\* pop(name, force=True) returns what get(name) returned right before it,
\* and get(name) right after it returns None.
C34_RoundTrip ==
    /\ (NamedCall /\ last.op = "put" /\ ~FalsyVal(last.value)) =>
           SameMapping(get(db, last.name).ret, last.value)
    /\ (NamedCall /\ last.op = "pop" /\ last.force) =>
           /\ last.ret = get(last.pre, last.name).ret
           /\ get(db, last.name).ret = NoneVal

\* a write was entered after an earlier write of the process had replaced
\* the file
\* a write that began after an earlier write of the process had replaced
\* the database file and returned
LaterWrite == run.w # NoWrite /\ run.w.hook

\* C35: once a write has replaced the database file and returned, the
\* baseline is the plaintext of the file.  So a later write of the process
\* that finds the Database as it was written makes no encryption call and
\* leaves the file alone, and a later write that finds the Database put
\* back to the content read at the start encrypts and replaces the file.
C35_BaselineFollowsWrite ==
    /\ (run.replaces >= 1 /\ run.pc # "written") => dbfile = encrypt(run.data)
    /\ LaterWrite => run.w.baseline = decrypt(run.w.file)
    /\ (LaterWrite /\ run.w.data = decrypt(run.w.file)) =>
           /\ run.encrypts = run.w.encrypts
           /\ run.temp = NoFile
           /\ dbfile = run.w.file
           /\ run.pc \notin BeforeReplace \cup {"written"}
    /\ (LaterWrite /\ run.w.data # decrypt(run.w.file)) =>
           /\ run.pc \in BeforeReplace \cup {"written"} \/ status # "ok"
              \/ run.w.failed
              \/ (run.encrypts = run.w.encrypts + 1 /\ dbfile = encrypt(run.w.data))
           /\ (run.pc = "done" /\ status = "ok") => run.replaces >= 2

\* edit: a save was written, then the editor was left with the text the
\* entry had at the start: the file was replaced a second time and is the
\* one found
C35_Witness ==
    /\ LaterWrite
    /\ run.w.data = decrypt(run.file0)
    /\ run.w.file # run.file0
    /\ run.replaces = 2
    /\ run.encrypts = 2
    /\ dbfile = run.file0
    /\ run.pc = "done"
    /\ status = "ok"

(***************************************************************************)
(* The exit of the processes that wrote: every process runs a mutating     *)
(* command against a database file that exists, one of them started        *)
(* while the others are under way.                                         *)
(***************************************************************************)
ExitInit ==
    /\ LockInit
    /\ dbfile # NoFile

ExitNext ==
    \/ \E p \in Procs : Start(p, "mutate")
    \/ \E p \in Procs : IsFile(p)
    \/ \E p \in Procs : LockOpen(p)
    \/ \E p \in Procs : LockAcquire(p)
    \/ \E p \in Procs : Decrypt(p)
    \/ \E p \in Procs : WriteTemp(p)
    \/ \E p \in Procs : Write(p)
    \/ \E p \in Procs : Finish(p)
    \/ \E p \in Procs : AtExit(p)
    \/ \E p \in Procs : Terminate(p)

SpecExit == ExitInit /\ [][ExitNext]_vars

\* the post-write hook of a process ran while unlock_file was still to run
HookBeforeUnlock ==
    \A p \in Procs :
        (procs[p].pc \notin {"idle", "terminated"} /\ procs[p].hooked # "no") =>
            /\ procs[p].hooked = "locked"
            /\ procs[p].wrote
            /\ held[procs[p].fd] = p

\* no process was given the lock while another one had replaced the
\* database file and had its hook still to run
NoneOvertook ==
    \A p \in Procs : procs[p].pc \notin {"idle", "terminated"} => ~procs[p].overtook

\* C36: in a process that acquired the lock and replaced the database file,
\* the post-write hook runs at exit before unlock_file removes the lock
\* file, with the lock of the process still held, and no other mutating
\* process acquires the lock between the write and the run of the hook.
C36_HookBeforeRelease == HookBeforeUnlock /\ NoneOvertook

\* the lock of process p failed
LockFailed(r) == r.pc # "idle" /\ r.outcome = "contention"

\* C37: a process whose attempt to acquire the lock fails has registered no
\* exit handler and holds no lock, and none of its steps, from the failed
\* lockf to its end, removes the lock file or changes who holds a lock: the
\* lock file that the holder locked is where it was, and locked as it was,
\* when the failed process has exited.
C37_FailedLeavesLockFile ==
    /\ [](\A p \in Procs :
             LockFailed(procs[p]) =>
                 /\ ~procs[p].registered
                 /\ procs[p].exits = <<>>
                 /\ \A i \in Procs : held[i] # p)
    /\ [][\A p \in Procs :
             (LockFailed(procs'[p]) /\ procs'[p] # procs[p]) =>
                 /\ lockpath' = lockpath
                 /\ held' = held]_vars

\* a process was refused the lock and has ended, and the holder, at work,
\* still has the lock on the file that the lock path names
C37_Witness ==
    \E p, q \in Procs :
        /\ procs[p].pc = "terminated" /\ procs[p].outcome = "contention"
        /\ procs[q].pc = "work" /\ Holds(q)
        /\ lockpath # NoInode
        /\ lockpath = procs[q].fd
        /\ held[lockpath] = q

(***************************************************************************)
(* Properties of edit: the saves that on_modified ignores, the deletion,   *)
(* and the threads (checked under Spec).                                   *)
(***************************************************************************)
\* the observer's thread runs on_modified, which reads the temporary file
HandlerRuns ==
    /\ run.pc = "editing" /\ run.pending /\ ~run'.pending
    /\ \/ run'.pc = "editing"
       \/ run'.pc = "write" /\ run'.resume = "editing"

\* text that is empty or only a comment, or that is no YAML
Ignorable(text) == Raises(text) # "" \/ text = EmptyText

\* the name given to edit is found in the Database d
Kept(d) == get(d, run.cmd.name).ret # NoneVal

\* edit has read the temporary file for the last time
FinalRead == run.cmd.op = "edit" /\ run.edited # NoneVal /\ run.pc \in {"exit", "done"}

\* a call of on_modified that finds ignorable text changes neither the
\* Database nor the database file and starts no write
IgnoredSavesChangeNothing ==
    [][(HandlerRuns /\ Ignorable(run.edited)) =>
          /\ db' = db
          /\ dbfile' = dbfile
          /\ last' = last
          /\ run'.pc = "editing"
          /\ run'.data = run.data]_vars

\* what edit was given is removed only by the put after the editor has
\* exited and the observer was joined, with the prompt of pop confirmed
DeletionOnlyAtTheEnd ==
    [][(run.cmd.op = "edit" /\ run.edited # NoneVal /\ Kept(db) /\ ~Kept(db')) =>
          /\ ~run.open
          /\ run.pc = "editing"
          /\ FalsyVal(to_dict(run.edited))
          /\ last'.op = "put" /\ last'.asked = "entry"
          /\ run'.pc = "write" /\ run'.resume = "exit"]_vars

\* final text that raises ScannerError ends edit with 'Invalid yaml'
ScannerErrorEndsEdit ==
    (FinalRead /\ Caught(run.edited) /\ status # "crashed") =>
        /\ status = "exit1"
        /\ run.message = "Invalid yaml"

\* final text that is no YAML ends edit with 'Invalid yaml'
InvalidEndsEdit ==
    (FinalRead /\ Raises(run.edited) # "" /\ status # "crashed") =>
        /\ status = "exit1"
        /\ run.message = "Invalid yaml"

\* after the last read of unparsable text nothing writes the database file
NoWriteAfterInvalid ==
    [][(FinalRead /\ Raises(run.edited) # "") => dbfile' = dbfile /\ db' = db]_vars

\* C38: while the editor is open, a save of empty, comment-only or
\* unparsable text changes neither the Database nor the database file; what
\* is edited is deleted only after the editor has exited, by the final put
\* with its prompt confirmed; and unparsable final text ends the command
\* with 'Invalid yaml' and without a further write.
C38_IgnoredSaves ==
    /\ IgnoredSavesChangeNothing
    /\ DeletionOnlyAtTheEnd
    /\ []InvalidEndsEdit
    /\ NoWriteAfterInvalid

\* edit is between observer.start() and observer.join()
Watched(r) == r.pc = "editing" \/ HandlerBusy(r)

\* edit goes on after observer.join(): its last read of the temporary file
LastRead == Watched(run) /\ ~Watched(run')

\* edit has ended with its last put and write done
EditDone ==
    /\ run.cmd.op = "edit" /\ run.edited # NoneVal
    /\ run.pc = "done" /\ status = "ok"

\* C39: edit reads the temporary file for the last time, and goes on to its
\* last put and write, only when the editor has exited and no call of
\* on_modified is under way, and no call of on_modified starts after that;
\* the file is not saved after the editor has exited; and when edit has
\* ended, the Database is what the put of the text the editor left made of
\* it, and the database file holds it.
C39_ThreadsApart ==
    /\ [][LastRead => (~run.open /\ ~HandlerBusy(run) /\ ~run'.watching)]_vars
    /\ [][HandlerRuns => (run.watching /\ Watched(run))]_vars
    /\ [][(run.pc # "unused" /\ run.edited # NoneVal /\ ~run.open) =>
             run'.edited = run.edited]_vars
    /\ [](EditDone =>
             /\ last.op = "put"
             /\ last.name = run.cmd.name
             /\ last.value = to_dict(run.edited)
             /\ db = put(last.pre, run.cmd.name, to_dict(run.edited), TRUE).db
             /\ dbfile = encrypt(to_string(db)))

\* the user saved, and saved other text while leaving the editor, when
\* on_modified was still writing the first; edit waited, and ended with the
\* second text put and written
C39_Witness ==
    /\ EditDone
    /\ run.waited
    /\ run.saves = 1
    /\ run.replaces = 2
    /\ last.value = to_dict(run.edited)
    /\ dbfile = encrypt(to_string(db))
====
